---------------------------- MODULE Spec2Model ----------------------------
(***************************************************************************)
(* The cross-frame message bus of the Pearson MyLab AI Solver content      *)
(* script (src/src/js/content.js, setupCrossDomainCommunication and        *)
(* setupFallbackCommunication) with its diagnostics collector              *)
(* (src/src/js/debugUtils.js).                                             *)
(*                                                                         *)
(* Two frames, a top document and one nested iframe, each run the same     *)
(* content script.  Every frame owns its window.* trackers; frames talk    *)
(* only through postMessage (primary channel) and localStorage storage     *)
(* events (fallback channel).  Time is Date.now() in milliseconds.         *)
(***************************************************************************)
EXTENDS Integers, Sequences, FiniteSets, TLC

VARIABLES
    now,            \* Date.now()
    nextId,         \* source of fresh messageIds (msg_<time>_<random>)
    sameOrigin,     \* whether the iframe is served from the top document's origin
    unreachable,    \* the windows whose postMessage raises an error
    bus,            \* per frame: the window.* trackers and the content script state
    diag,           \* per frame: window.PearsonAiDebug (messageStats, circularPaths)
    net,            \* per frame: the postMessage events queued for its 'message' listener
    store,          \* keys of protocol entries currently in localStorage
    storeEvents,    \* per frame: the storage events queued for its 'storage' listener
    timers,         \* pending setTimeout callbacks
    bg,             \* per frame: chrome.runtime analyzeQuestion requests awaiting a response
    dispatched,     \* history: per frame, how often each envelope reached an action switch, by channel
    cbCount,        \* history: per ping messageId, how often its callback was invoked
    expired,        \* history: ping messageIds purged by their timeout timer
    txLog,          \* history: every primary-channel transmission
    injected,       \* history: number of envelopes posted by windows outside the model
    ticks,          \* history: number of times Date.now() was seen to advance
    blocked,        \* history: per frame, the envelopes the listener rejected as loops
    outcomes,       \* history: how the listener runs ended, by frame and channel
    workload,       \* the kind of traffic the collaborators produce in this behaviour
    loopCalls,      \* history: number of calls of PearsonAiDebug.detectMessageLoop from outside the bus
    generatedIds,   \* history: the messageIds generated by the top frame, written out
    discoveries     \* history: the arrays handed to the callbacks of discoverFrames

vars == <<now, nextId, sameOrigin, unreachable, bus, diag, net, store, storeEvents, timers, bg,
          dispatched, blocked, outcomes, cbCount, expired, txLog, injected, ticks, workload, loopCalls, generatedIds, discoveries>>

---------------------------------------------------------------------------
(* Bounds of the model *)

MaxIds == 3          \* calls of sendCrossDomainMessage in one behaviour
MaxInject == 1       \* envelopes posted by windows outside the model
MaxTicks == 1        \* advances of Date.now() between handler runs
MaxArrivals == 102   \* envelopes a frame receives from one outside window
MaxRecords == 52     \* recordMessageStat calls for one pair when statistics are followed
MaxLoops == 22       \* detectMessageLoop calls when circular paths are followed
FewRecords == 27     \* recordMessageStat calls for one pair when circular paths are followed
FewLoops == 1        \* detectMessageLoop calls when statistics are followed
StartTime == 100000  \* Date.now() when the frames were set up

---------------------------------------------------------------------------
(* Program constants *)

minInterval == 500                  \* sendCrossDomainMessage: per-action throttle
hashWindow == 2000                  \* sendCrossDomainMessage: duplicate-content window
hashMaxAge == 10000                 \* sendCrossDomainMessage: age at which a hash is forgotten
maxTrackedIds == 100                \* receivedMessageIds / sentMessageIds cap
pingTimeout == 5000                 \* pendingPings cleanup delay
defaultRetryDelay == 500            \* options.retryDelay default
loopPathLength == 5                 \* message listener: path length that triggers loop analysis
loopCount == 3                      \* occurrences of a domain that make a loop
echoWindow == 1000                  \* message listener: age below which an own message is an echo
forwardPathLimit == 3               \* updateStatus: forward only below this path length
MAX_PROCESSED_MESSAGES == 100       \* storage listener: processedStorageMessages cap
MIN_STORAGE_MESSAGE_INTERVAL == 1000 \* storage listener: per-action receive throttle
storageHopLimit == 3                \* storage listener: path length above which a message is ignored
storageMinInterval == 2000          \* fallback wrapper: per-action localStorage throttle
storageCleanupDelay == 1000         \* fallback wrapper: localStorage.removeItem delay
maxCircularPaths == 20              \* detectMessageLoop: circularPaths cap
maxTimestamps == 50                 \* recordMessageStat: timestamps cap
maxDataPoints == 20                 \* recordMessageStat: data cap
rateWindow == 5000                  \* getMessageStatsReport: age below which a record counts for the rate
rateSeconds == 5                    \* getMessageStatsReport: divisor of the rate
concerningRate == 5                 \* analyzeMessageFlow: rate above which the flow is concerning
problematicRate == 10               \* analyzeMessageFlow: rate above which the flow is problematic
problematicLoops == 5               \* analyzeMessageFlow: loop count above which the flow is problematic

---------------------------------------------------------------------------
(* Values *)

Frames == {"top", "child"}

Absent == "absent"          \* a property the object does not have (undefined)
Yes == "true"
No == "false"
NoId == 0                   \* no messageId / no replyTo
Null == 0                   \* sendCrossDomainMessage's null result
Thrown == -1                \* sendCrossDomainMessage ended by raising instead of returning
NoPath == <<>>              \* data.path undefined
SomePath(p) == <<p>>        \* data.path is the array p
ProtocolTag == "pearson_ai_solver"

Truthy(v) == v = Yes

\* detectPearsonDomain(): the first pattern that matches the frame's URL.
detectPearsonDomain(f) ==
    IF f = "top" \/ sameOrigin THEN "mylab" ELSE "mylabmastering"

\* An origin string is the sequence of the pieces the origin patterns look at
MyLabOrigin == <<"https://", "mylab", ".", "pearson", ".", "com">>
MasteringOrigin == <<"https://", "mylabmastering", ".", "pearson", ".", "com">>
ForeignOrigin == <<"https://", "evil", ".", "example">>
\* Origins whose host is no Pearson host but has the text of one in it
PrefixedOrigin == <<"https://", "evil", "pearson", ".", "com">>
SuffixedOrigin == <<"https://", "mylab", ".", "pearson", ".", "com", ".", "evil", ".", "example">>
\* Other hosts of the Pearson domains
PearsonOrigin == <<"https://", "pearson", ".", "com">>
CmgOrigin == <<"http://", "www", ".", "pearsoncmg", ".", "com">>
MasteringSiteOrigin == <<"https://", "portal", ".", "pearsonmylabandmastering", ".", "com">>

\* window.location.origin of a frame
OriginOf(f) == IF f = "top" \/ sameOrigin THEN MyLabOrigin ELSE MasteringOrigin

\* window.parent / document.querySelectorAll('iframe'): the frames a send reaches
Targets(f) == Frames \ {f}

\* The windows a send posts to, in the order of the code: the parent, then the
\* iframes of the document.  Besides the frame of the model each document
\* holds an iframe without the content script.
PostTargets(f) == IF f = "top" THEN <<"ad", "child">> ELSE <<"top", "widget">>

\* A posting loop that gives up at the first target that raises
RECURSIVE PostedUntilError(_, _)
PostedUntilError(targets, bad) ==
    IF targets = <<>> \/ Head(targets) \in bad THEN {}
    ELSE {Head(targets)} \cup PostedUntilError(Tail(targets), bad)

\* 5. MESSAGE SENDING: the windows that get the text when postMessage raises
\* for the windows in bad; every target is tried in a try block of its own
RECURSIVE Posted(_, _)
Posted(targets, bad) ==
    IF targets = <<>> THEN {}
    ELSE (IF Head(targets) \in bad THEN {} ELSE {Head(targets)})
         \cup Posted(Tail(targets), bad)

\* whether the frame is nested (window.parent !== window)
HasParent(f) == f = "child"

\* the frames whose 'storage' listener sees a localStorage write of f
StoreReaders(f) == IF sameOrigin THEN Frames \ {f} ELSE {}

Range(s) == {s[i] : i \in 1..Len(s)}

\* Array.prototype.slice(-n)
SliceLast(s, n) == IF Len(s) > n THEN SubSeq(s, Len(s) - n + 1, Len(s)) ELSE s

\* obj[key] || 0 on a timestamp table
Get(m, k) == IF k \in DOMAIN m THEN m[k] ELSE 0

\* obj[key] = v
Put(m, k, v) == [x \in DOMAIN m \cup {k} |-> IF x = k THEN v ELSE m[x]]

\* Number of occurrences of d in the array p
RECURSIVE CountIn(_, _)
CountIn(p, d) ==
    IF p = <<>> THEN 0
    ELSE (IF Head(p) = d THEN 1 ELSE 0) + CountIn(Tail(p), d)


---------------------------------------------------------------------------
(* Diagnostics collector: debugUtils.js, and debugLog's use of it *)

StatCategories == {"sent", "received", "throttled"}   \* keys of messageStats that hold counters

\* messageStats.localStorage is { sent: {}, received: {} }: read as a category,
\* it holds two entries that are objects without count, timestamps and data
NestedCategory == "localStorage"
NestedKeys == {<<NestedCategory, "sent">>, <<NestedCategory, "received">>}

EmptyStat == [bare |-> FALSE, count |-> 0, timestamps |-> <<>>, data |-> <<>>]
BareObject == [bare |-> TRUE, count |-> 0, timestamps |-> <<>>, data |-> <<>>]

\* Names that every object inherits from Object.prototype: messageStats[category][name]
\* is truthy for them before anything was recorded
InheritedKeys == {"constructor"}

\* window.PearsonAiDebug after debugUtils.js ran; installed says whether it ran
InitDiag == [installed |-> TRUE, stats |-> [k \in NestedKeys |-> BareObject],
             circularPaths |-> <<>>]

\* recordMessageStat(category, action, data) raises a TypeError: the category
\* is no key of messageStats, or the entry found under the action is no
\* statistics object (an inherited property, or a bare object) and has no
\* timestamps to push to
RecordThrows(d, category, action) ==
    \/ category \notin StatCategories \cup {NestedCategory}
    \/ action \in InheritedKeys
    \/ <<category, action>> \in DOMAIN d.stats /\ d.stats[<<category, action>>].bare

\* A debugLog call: the words of its message that debugLog looks for, and of its
\* data argument the parts debugLog reads: data.action, the data itself when it
\* is a string, data.path, and the action quoted in a 'Rate limiting' message.
LogEntry(words, action, str, path, quoted) ==
    [words |-> words, action |-> action, str |-> str, path |-> path, quoted |-> quoted]

\* A recorder that drops the newest timestamp when the list is full
recordMessageStatKeepsOldest(d, category, action, hasData, t) ==
    LET k == <<category, action>>
        old == IF k \in DOMAIN d.stats THEN d.stats[k] ELSE EmptyStat
        ts == IF Len(old.timestamps) >= maxTimestamps THEN old.timestamps
              ELSE Append(old.timestamps, t)
        dt0 == IF hasData THEN Append(old.data, t) ELSE old.data
        dt == IF Len(dt0) > maxDataPoints THEN Tail(dt0) ELSE dt0
    IN [d EXCEPT !.stats = Put(@, k, [bare |-> FALSE, count |-> old.count + 1,
                                      timestamps |-> ts, data |-> dt])]

\* A recorder that keeps every timestamp
recordMessageStatKeepsAll(d, category, action, hasData, t) ==
    LET k == <<category, action>>
        old == IF k \in DOMAIN d.stats THEN d.stats[k] ELSE EmptyStat
        dt0 == IF hasData THEN Append(old.data, t) ELSE old.data
        dt == IF Len(dt0) > maxDataPoints THEN Tail(dt0) ELSE dt0
    IN [d EXCEPT !.stats = Put(@, k, [bare |-> FALSE, count |-> old.count + 1,
                                      timestamps |-> Append(old.timestamps, t), data |-> dt])]

\* recordMessageStat(category, action, data); t is Date.now().
\* messageStats is a table indexed by <<category, action>>.
recordMessageStat(d, category, action, hasData, t) ==
    LET k == <<category, action>>
        old == IF k \in DOMAIN d.stats THEN d.stats[k] ELSE EmptyStat
        ts0 == Append(old.timestamps, t)
        ts == IF Len(ts0) > maxTimestamps THEN Tail(ts0) ELSE ts0
        dt0 == IF hasData THEN Append(old.data, t) ELSE old.data
        dt == IF Len(dt0) > maxDataPoints THEN Tail(dt0) ELSE dt0
    IN [d EXCEPT !.stats = Put(@, k, [bare |-> FALSE, count |-> old.count + 1,
                                      timestamps |-> ts, data |-> dt])]

\* Some domain occurs loopCount times or more in the path
HasRepeatedDomain(path) == \E x \in Range(path) : CountIn(path, x) >= loopCount

\* detectMessageLoop(path): the value it returns
LoopDetected(path) == Len(path) >= 3 /\ HasRepeatedDomain(path)

\* detectMessageLoop(path): its effect on circularPaths; t is Date.now()
detectMessageLoop(d, path, t) ==
    IF LoopDetected(path)
    THEN LET rec == [timestamp |-> t, path |-> path,
                     counts |-> [x \in Range(path) |-> CountIn(path, x)]]
             cp == Append(d.circularPaths, rec)
         IN [d EXCEPT !.circularPaths = IF Len(cp) > maxCircularPaths THEN Tail(cp) ELSE cp]
    ELSE d

\* debugLog: the category it derives from the message text
LogCategory(e) ==
    IF "Sending" \in e.words /\ "message" \in e.words THEN "sent"
    ELSE IF "Received" \in e.words /\ "message" \in e.words THEN "received"
    ELSE IF "Rate limiting" \in e.words THEN "throttled"
    ELSE IF "localStorage" \in e.words /\ "message" \in e.words
         THEN IF "Sent" \in e.words THEN "localStorage.sent"
              ELSE IF "Received" \in e.words THEN "localStorage.received"
              ELSE Absent
    ELSE Absent

\* debugLog: the action it derives from the data argument
LogAction(e) ==
    LET c == LogCategory(e)
    IN IF c \in {"sent", "received"} THEN e.action
       ELSE IF c = "throttled" THEN e.quoted
       ELSE IF c \in {"localStorage.sent", "localStorage.received"} THEN e.str
       ELSE Absent

\* debugLog raises when recordMessageStat does
LogThrows(d, e) ==
    /\ d.installed
    /\ LogCategory(e) # Absent
    /\ LogAction(e) # Absent
    /\ RecordThrows(d, LogCategory(e), LogAction(e))

\* debugLog(level, message, data): its effect on window.PearsonAiDebug
debugLog(d, e, t) ==
    LET c == LogCategory(e)
        a == LogAction(e)
    IN IF ~d.installed \/ c = Absent \/ a = Absent \/ RecordThrows(d, c, a) THEN d
       ELSE LET d1 == recordMessageStat(d, c, a, TRUE, t)
            IN IF c = "sent" /\ e.path # NoPath
               THEN detectMessageLoop(d1, e.path[1], t)
               ELSE d1

\* getMessageStatsReport().loops
ReportLoops(d) == Len(d.circularPaths)

\* getMessageStatsReport(): recentMessages.length for the pair k; the rate the
\* report gives is this number divided by five
RecentMessages(d, k, t) ==
    Cardinality({i \in 1..Len(d.stats[k].timestamps) : (t - d.stats[k].timestamps[i]) < rateWindow})

\* report.messageRate[action][category] > r
RateAbove(d, k, t, r) == RecentMessages(d, k, t) > r * rateSeconds

\* getMessageStatsReport() raises a TypeError: it walks every category of
\* messageStats and reads entry.timestamps.filter, which a bare object of the
\* localStorage category does not have
ReportThrows(d) == \E k \in DOMAIN d.stats : d.stats[k].bare

TypeError == "TypeError"

\* analyzeMessageFlow(): the flowRating it can return at time t, or TypeError
\* when getMessageStatsReport raises.  Every pair whose rate is above 5 sets
\* the rating, so the pair the loop visits last decides; the key order of the
\* objects is not kept here and each such pair may be the last.  More than
\* five circular paths set 'problematic' after the loop.
FlowRatings(d, t) ==
    IF ReportThrows(d) THEN {TypeError}
    ELSE IF Len(d.circularPaths) > problematicLoops THEN {"problematic"}
    ELSE LET fast == {k \in DOMAIN d.stats : RateAbove(d, k, t, concerningRate)}
         IN IF fast = {} THEN {"normal"}
            ELSE {IF RateAbove(d, k, t, problematicRate) THEN "problematic" ELSE "concerning" :
                     k \in fast}

\* resetDebugStats(): every entry of every category, the bare objects of the
\* localStorage category included, gets count 0 and empty lists
resetDebugStats(d) ==
    [d EXCEPT !.stats = [k \in DOMAIN @ |-> EmptyStat], !.circularPaths = <<>>]


---------------------------------------------------------------------------
(* Sending: window.sendCrossDomainMessage *)

\* The caller's data object: the properties the bus reads
Data(action, enabled, hasQuestions, replyTo, path) ==
    [action |-> action, enabled |-> enabled, hasQuestions |-> hasQuestions,
     replyTo |-> replyTo, path |-> path]

NoCallback == "null"

\* The options object with its defaults (retry = false, retryCount = 1,
\* retryDelay = 500, callback = null, skip flags = false)
DefaultOptions ==
    [retry |-> FALSE, retryCount |-> 1, retryDelay |-> defaultRetryDelay,
     callback |-> NoCallback, skipDuplicateCheck |-> FALSE, skipRateLimiting |-> FALSE]

InitBus ==
    [enabled |-> No,
     analyzing |-> FALSE,
     receivedMessageIds |-> <<>>,
     sentMessageIds |-> <<>>,
     messageThrottleTimestamps |-> <<>>,
     sentMessageHashes |-> <<>>,
     pendingPings |-> <<>>,
     storageLastSentTimes |-> <<>>,
     processedStorageMessages |-> <<>>,
     lastStorageMessageTimes |-> <<>>]

\* What one run of a handler of frame f has done so far: the frame's trackers b
\* and diagnostics d, and what the run handed to the browser: envelopes posted
\* to the windows that took them, localStorage writes, timers, background
\* requests, ping callbacks invoked.  ret is the value the last call of sendCrossDomainMessage returned.
Ctx(f) ==
    [b |-> bus[f], d |-> diag[f], t |-> now, nid |-> nextId, bad |-> unreachable,
     post |-> {}, writes |-> {}, tms |-> {}, tx |-> <<>>, bgNew |-> 0, called |-> <<>>,
     ret |-> Null]

Log(c, e) == [c EXCEPT !.d = debugLog(@, e, c.t)]

\* const actionKey = data.action || 'unknown'
ActionKey(data) == IF data.action = Absent THEN "unknown" ELSE data.action

\* JSON.stringify({action, enabled?, hasQuestions?}): the content fingerprint
messageHash(data) == <<data.action, data.enabled, data.hasQuestions>>

\* 1. THROTTLING: the send is refused
RateLimited(b, data, opts, t) ==
    /\ ~opts.skipRateLimiting
    /\ (t - Get(b.messageThrottleTimestamps, ActionKey(data))) < minInterval

\* 2. DEDUPLICATION: the same content was sent in the last two seconds
DuplicateContent(b, data, opts, t) ==
    /\ ~opts.skipDuplicateCheck
    /\ messageHash(data) \in DOMAIN b.sentMessageHashes
    /\ (t - b.sentMessageHashes[messageHash(data)]) < hashWindow

\* Object.keys(sentMessageHashes).forEach: forget hashes older than ten seconds
CleanHashes(m, t) == [h \in {x \in DOMAIN m : ~((t - m[x]) > hashMaxAge)} |-> m[h]]

\* 4. MESSAGE PREPARATION: path: data.path ? [...data.path, own] : [own]
AppendPath(f, data) ==
    IF data.path # NoPath THEN SomePath(Append(data.path[1], detectPearsonDomain(f)))
    ELSE SomePath(<<detectPearsonDomain(f)>>)

\* A text without any field of the protocol
NoEnvelope ==
    [source |-> Absent, action |-> Absent, enabled |-> Absent, hasQuestions |-> Absent,
     replyTo |-> NoId, from |-> Absent, timestamp |-> 0, messageId |-> NoId,
     path |-> NoPath, fallback |-> FALSE, json |-> TRUE]

\* The envelope posted on the primary channel, as JSON.stringify writes it;
\* json says that JSON.parse accepts the text
Envelope(f, data, id, t) ==
    [source |-> ProtocolTag, action |-> data.action, enabled |-> data.enabled,
     hasQuestions |-> data.hasQuestions, replyTo |-> data.replyTo,
     from |-> detectPearsonDomain(f), timestamp |-> t, messageId |-> id,
     path |-> AppendPath(f, data), fallback |-> FALSE, json |-> TRUE]

\* Retry options that do not count the attempts down
RetryOptionsKeepsCount(opts) ==
    [retry |-> TRUE, retryCount |-> opts.retryCount, retryDelay |-> opts.retryDelay,
     callback |-> opts.callback, skipDuplicateCheck |-> TRUE, skipRateLimiting |-> TRUE]

\* 6. RETRY LOGIC: the options of the retry the bus schedules
RetryOptions(opts) ==
    [retry |-> TRUE, retryCount |-> opts.retryCount - 1, retryDelay |-> opts.retryDelay,
     callback |-> opts.callback, skipDuplicateCheck |-> TRUE, skipRateLimiting |-> TRUE]

SendingLog(data) == LogEntry({"Sending", "message"}, data.action, Absent, NoPath, Absent)
RateLimitLog(data) == LogEntry({"Rate limiting", "message"}, Absent, Absent, NoPath, ActionKey(data))

\* A ping with a callback is tracked in pendingPings
Tracked(data, opts) == data.action = "ping" /\ opts.callback # NoCallback

\* The timers a transmission starts: the ping timeout and the retry
SendTimers(f, data, opts, messageId, t) ==
    (IF Tracked(data, opts)
     THEN {[kind |-> "pingTimeout", frame |-> f, id |-> messageId, due |-> t + pingTimeout]}
     ELSE {})
    \cup
    (IF opts.retry /\ opts.retryCount > 0
     THEN {[kind |-> "retry", frame |-> f, id |-> messageId, data |-> data,
            opts |-> RetryOptions(opts), due |-> t + opts.retryDelay]}
     ELSE {})

\* The 'Sending cross-domain message' debugLog call raises: the fingerprint and
\* the messageId are recorded, the call ends before anything is posted
SendingLogRaised(c, data, messageId) ==
    [c EXCEPT
       !.b.sentMessageHashes = CleanHashes(Put(@, messageHash(data), c.t), c.t),
       !.b.sentMessageIds = SliceLast(Append(@, messageId), maxTrackedIds),
       !.ret = Thrown]

\* 2.-6. of the primary send, once both checks let the message through; c is
\* the run with the throttle timestamp set and the messageId taken
Transmit(c, f, data, opts, origin, messageId) ==
    [Log(c, SendingLog(data)) EXCEPT
       !.b.sentMessageHashes = CleanHashes(Put(@, messageHash(data), c.t), c.t),
       !.b.sentMessageIds = SliceLast(Append(@, messageId), maxTrackedIds),
       !.b.pendingPings = IF Tracked(data, opts)
                          THEN Put(@, messageId, [timestamp |-> c.t, callback |-> opts.callback])
                          ELSE @,
       !.post = @ \cup {[to |-> g, env |-> Envelope(f, data, messageId, c.t)] :
                           g \in Posted(PostTargets(f), c.bad)},
       !.tms = @ \cup SendTimers(f, data, opts, messageId, c.t),
       !.tx = Append(@, [frame |-> f, action |-> ActionKey(data), time |-> c.t,
                         id |-> messageId, skipRateLimiting |-> opts.skipRateLimiting,
                         origin |-> origin, env |-> Envelope(f, data, messageId, c.t),
                         posted |-> Posted(PostTargets(f), c.bad), written |-> FALSE,
                         path |-> data.path, stored |-> NoEnvelope, retryOf |-> NoId,
                         retry |-> opts.retry, retryCount |-> opts.retryCount,
                         retryDelay |-> opts.retryDelay]),
       !.ret = messageId]

\* The primary send after the throttle let the message through and set
\* messageThrottleTimestamps[actionKey]
AfterThrottle(c, f, data, opts, origin, messageId) ==
    IF DuplicateContent(c.b, data, opts, c.t) THEN [c EXCEPT !.ret = Null]
    ELSE IF LogThrows(c.d, SendingLog(data)) THEN SendingLogRaised(c, data, messageId)
    ELSE Transmit(c, f, data, opts, origin, messageId)

\* A primary send that stamps the action also when it refuses the message
originalSendStampsRefused(c, f, data, opts, origin) ==
    IF RateLimited(c.b, data, opts, c.t)
    THEN [Log(c, RateLimitLog(data)) EXCEPT
            !.nid = @ + 1, !.ret = Null,
            !.b.messageThrottleTimestamps = Put(@, ActionKey(data), c.t)]
    ELSE AfterThrottle([c EXCEPT !.nid = @ + 1,
                                 !.b.messageThrottleTimestamps = Put(@, ActionKey(data), c.t)],
                       f, data, opts, origin, c.nid)

\* originalSend: the primary-channel send (content.js 1311-1483).
\* origin says who called: "caller", "retry", "reply" or "forward".
originalSend(c, f, data, opts, origin) ==
    IF RateLimited(c.b, data, opts, c.t)
    THEN [Log(c, RateLimitLog(data)) EXCEPT
            !.nid = @ + 1,
            !.ret = IF LogThrows(c.d, RateLimitLog(data)) THEN Thrown ELSE Null]
    ELSE AfterThrottle([c EXCEPT !.nid = @ + 1,
                                 !.b.messageThrottleTimestamps = Put(@, ActionKey(data), c.t)],
                       f, data, opts, origin, c.nid)

\* ['analyzeQuestion', 'updateStatus', 'requestQuestionCheck'].includes(data.action)
shouldUseFallback(data) ==
    data.action \in {"analyzeQuestion", "updateStatus", "requestQuestionCheck"}

\* The envelope written to localStorage: the caller's data with metadata, the
\* path as the caller gave it
FallbackEnvelope(f, data, id, t) ==
    [source |-> ProtocolTag, action |-> data.action, enabled |-> data.enabled,
     hasQuestions |-> data.hasQuestions, replyTo |-> data.replyTo,
     from |-> detectPearsonDomain(f), timestamp |-> t, messageId |-> id,
     path |-> data.path, fallback |-> TRUE, json |-> TRUE]

SentFallbackLog(data) ==
    LogEntry({"Sent", "message", "localStorage"}, Absent, data.action, NoPath, Absent)

\* function debugLog is declared in the body of setupCrossDomainCommunication
\* (content.js 1033), so the name is bound only there
debugLogBound(fn) == fn = "setupCrossDomainCommunication"

\* A call of debugLog in setupFallbackCommunication raises a ReferenceError
FallbackLogRaises == ~debugLogBound("setupFallbackCommunication")

\* The wrapper after the localStorage write: storageLastSent updated, the
\* entry written under a fresh key, its removal scheduled; c1 is the run after
\* the primary send, whose transmission is marked as written to localStorage
FallbackWritten(c1, f, data) ==
    [c1 EXCEPT
       !.b.storageLastSentTimes = Put(@, ActionKey(data), c1.t),
       !.writes = @ \cup {[key |-> c1.ret, env |-> FallbackEnvelope(f, data, c1.ret, c1.t)]},
       !.tx = [@ EXCEPT ![Len(@)].written = TRUE,
                        ![Len(@)].stored = FallbackEnvelope(f, data, c1.ret, c1.t)],
       !.tms = @ \cup {[kind |-> "cleanup", frame |-> f, id |-> c1.ret,
                        due |-> c1.t + storageCleanupDelay]}]

\* A wrapper that writes to localStorage on every send of a fallback action
AddFallbackUnspaced(c1, f, data) ==
    IF c1.ret \in {Null, Thrown} \/ ~shouldUseFallback(data) THEN c1
    ELSE [FallbackWritten(c1, f, data) EXCEPT !.ret = Thrown]

\* The wrapper's own part (content.js 1641-1693); c1 is the run after the
\* primary send, c1.ret the messageId it returned.
\* After a primary send of a fallback action the wrapper reaches a debugLog
\* call: the one in the rate-limited branch is outside any try block, the one
\* after the write is inside it but the catch block calls debugLog again; both
\* end the call with the exception.  Were debugLog bound, the 'Sent fallback
\* message' call would raise in recordMessageStat and the catch would absorb it.
AddFallback(c1, f, data) ==
    IF c1.ret \in {Null, Thrown} \/ ~shouldUseFallback(data) THEN c1
    ELSE IF (c1.t - Get(c1.b.storageLastSentTimes, ActionKey(data))) < storageMinInterval
    THEN IF FallbackLogRaises THEN [c1 EXCEPT !.ret = Thrown] ELSE c1
    ELSE IF FallbackLogRaises THEN [FallbackWritten(c1, f, data) EXCEPT !.ret = Thrown]
    ELSE IF LogThrows(c1.d, SentFallbackLog(data)) THEN FallbackWritten(c1, f, data)
    ELSE Log(FallbackWritten(c1, f, data), SentFallbackLog(data))

\* window.sendCrossDomainMessage as setupFallbackCommunication leaves it
\* (content.js 1636-1694): the primary send, then the localStorage write
sendCrossDomainMessage(c, f, data, opts, origin) ==
    AddFallback(originalSend(c, f, data, opts, origin), f, data)


---------------------------------------------------------------------------
(* Origin validation *)

\* String.prototype.includes
Includes(str, sub) ==
    \E i \in 0..(Len(str) - Len(sub)) : SubSeq(str, i + 1, i + Len(sub)) = sub

EndsWith(str, sub) ==
    Len(str) >= Len(sub) /\ SubSeq(str, Len(str) - Len(sub) + 1, Len(str)) = sub

\* /^https?:\/\/.*?\.?<domain>$/
MatchesPattern(str, domain) ==
    /\ Len(str) >= 1 + Len(domain)
    /\ str[1] \in {"http://", "https://"}
    /\ EndsWith(str, domain)

PEARSON_DOMAIN_PATTERNS ==
    {<<"pearson", ".", "com">>, <<"pearsoncmg", ".", "com">>,
     <<"pearsonmylabandmastering", ".", "com">>}

\* isPearsonOrigin(origin), evaluated in frame f
isPearsonOrigin(f, origin) ==
    \/ Includes(origin, <<"mylab", ".", "pearson", ".", "com">>)
    \/ Includes(origin, <<"mylabmastering", ".", "pearson", ".", "com">>)
    \/ origin = OriginOf(f)
    \/ \E dom \in PEARSON_DOMAIN_PATTERNS : MatchesPattern(origin, dom)

---------------------------------------------------------------------------
(* The content script's page analysis, as far as it touches the bus *)

\* analyzeCurrentPage(); hq is what checkForQuestions() answers and ex whether
\* extractQuestionData() finds a question
analyzeCurrentPage(c, f, hq, ex) ==
    IF ~Truthy(c.b.enabled) \/ c.b.analyzing THEN c
    ELSE IF ~hq
    THEN IF HasParent(f)
         THEN sendCrossDomainMessage(c, f,
                  Data("requestQuestionCheck", Absent, Absent, NoId, NoPath),
                  DefaultOptions, "caller")
         ELSE c
    ELSE IF ~ex THEN c
    ELSE [c EXCEPT !.b.analyzing = TRUE, !.bgNew = @ + 1]

---------------------------------------------------------------------------
(* Receiving on the primary channel: the 'message' listener *)

Handled(c, outcome) == [c |-> c, outcome |-> outcome]

ReceivedLog(data) == LogEntry({"Received", "message"}, data.action, Absent, NoPath, Absent)

\* A listener that lets every messageId through
NeverProcessed(b, data) == FALSE

\* 2. MESSAGE DEDUPLICATION: the messageId was already processed
AlreadyProcessed(b, data) ==
    data.messageId # NoId /\ data.messageId \in Range(b.receivedMessageIds)

\* A record that drops the newest id when it is full
RecordReceivedKeepsOldest(b, data) ==
    IF data.messageId # NoId
    THEN [b EXCEPT !.receivedMessageIds =
                      IF Len(@) >= maxTrackedIds THEN @ ELSE Append(@, data.messageId)]
    ELSE b

\* receivedMessageIds.push(messageId), trimmed to the last 100
RecordReceived(b, data) ==
    IF data.messageId # NoId
    THEN [b EXCEPT !.receivedMessageIds = SliceLast(Append(@, data.messageId), maxTrackedIds)]
    ELSE b

\* 3. LOOP DETECTION: the envelope is blocked as a loop
LoopBlocked(f, data) ==
    /\ data.path # NoPath
    /\ Len(data.path[1]) > loopPathLength
    /\ CountIn(data.path[1], detectPearsonDomain(f)) >= loopCount

\* The envelope is an echo of a message this frame sent
IsEcho(b, f, data, t) ==
    /\ data.from = detectPearsonDomain(f)
    /\ data.timestamp # 0
    /\ (t - data.timestamp) < echoWindow
    /\ data.messageId # NoId
    /\ data.messageId \in Range(b.sentMessageIds)

\* An updateStatus handler that passes the change on without taking it over
OnUpdateStatusKeepsState(c, f, data) ==
    IF c.b.enabled # data.enabled /\ data.from # detectPearsonDomain(f)
       /\ data.path # NoPath /\ Len(data.path[1]) < forwardPathLimit
    THEN sendCrossDomainMessage(c, f,
             Data("updateStatus", data.enabled, Absent, NoId, data.path),
             DefaultOptions, "forward")
    ELSE c

\* An updateStatus handler that forwards whatever it receives
OnUpdateStatusAlwaysForwards(c, f, data) ==
    sendCrossDomainMessage([c EXCEPT !.b.enabled = data.enabled], f,
        Data("updateStatus", data.enabled, Absent, NoId, data.path),
        [DefaultOptions EXCEPT !.skipDuplicateCheck = TRUE, !.skipRateLimiting = TRUE], "forward")

\* case 'updateStatus'
OnUpdateStatus(c, f, data) ==
    IF c.b.enabled # data.enabled
    THEN LET c1 == [c EXCEPT !.b.enabled = data.enabled]
         IN IF data.from # detectPearsonDomain(f)
               /\ data.path # NoPath /\ Len(data.path[1]) < forwardPathLimit
            THEN sendCrossDomainMessage(c1, f,
                     Data("updateStatus", data.enabled, Absent, NoId, data.path),
                     DefaultOptions, "forward")
            ELSE c1
    ELSE c

\* A pong sent like any other message
PongPlainOptions == DefaultOptions

\* case 'ping': reply with a pong, both checks skipped
PongOptions == [DefaultOptions EXCEPT !.skipDuplicateCheck = TRUE, !.skipRateLimiting = TRUE]

OnPing(c, f, data, hq) ==
    sendCrossDomainMessage(c, f,
        Data("pong", Absent, IF hq THEN Yes ELSE No, data.messageId, NoPath),
        PongOptions, "reply")

\* A pong handler that leaves the pending entry in place
OnPongKeepsEntry(c, f, data) ==
    IF data.replyTo # NoId /\ data.replyTo \in DOMAIN c.b.pendingPings
    THEN [c EXCEPT !.called = Append(@, data.replyTo)]
    ELSE c

\* A pong handler that answers a pong with a pong
OnPongAnswers(c, f, data) ==
    sendCrossDomainMessage(c, f, Data("pong", Absent, Absent, data.messageId, NoPath),
                           PongOptions, "reply")

\* case 'pong': resolve the pending ping, once
OnPong(c, f, data) ==
    IF data.replyTo # NoId /\ data.replyTo \in DOMAIN c.b.pendingPings
    THEN [c EXCEPT
            !.called = Append(@, data.replyTo),
            !.b.pendingPings = [k \in DOMAIN @ \ {data.replyTo} |-> @[k]]]
    ELSE c

\* 4. MESSAGE PROCESSING: switch (data.action)
Dispatch(c, f, data, hq, ex) ==
    CASE data.action = "analyzeQuestion" ->
            IF ~c.b.analyzing THEN analyzeCurrentPage(c, f, hq, ex) ELSE c
      [] data.action = "updateStatus" -> OnUpdateStatus(c, f, data)
      [] data.action = "requestQuestionCheck" ->
            IF hq /\ Truthy(c.b.enabled)
            THEN [c EXCEPT !.tms = @ \cup {[kind |-> "analyze", frame |-> f, id |-> data.messageId,
                                            checkAnalyzing |-> TRUE, due |-> c.t]}]
            ELSE c
      [] data.action = "questionAnalyzed" ->
            IF c.b.analyzing THEN [c EXCEPT !.b.analyzing = FALSE] ELSE c
      [] data.action = "ping" -> OnPing(c, f, data, hq)
      [] data.action = "pong" -> OnPong(c, f, data)
      [] OTHER -> c

\* 3. LOOP DETECTION and the echo check, then the switch; c is the run after
\* the messageId was recorded
AfterDedup(c, f, data, hq, ex) ==
    IF LoopBlocked(f, data) THEN Handled(c, "loop")
    ELSE IF IsEcho(c.b, f, data, c.t) THEN Handled(c, "echo")
    ELSE Handled(Dispatch(c, f, data, hq, ex), "dispatched")

\* 2. MESSAGE DEDUPLICATION; c is the run after the 'Received message' log
AfterReceivedLog(c, f, data, hq, ex) ==
    IF AlreadyProcessed(c.b, data) THEN Handled(c, "duplicate")
    ELSE AfterDedup([c EXCEPT !.b = RecordReceived(@, data)], f, data, hq, ex)

\* A listener without the origin check
OnMessageFromAnyOrigin(c, f, origin, data, hq, ex) ==
    IF ~data.json THEN Handled(c, "malformed")
    ELSE IF data.source # ProtocolTag THEN Handled(c, "foreign")
    ELSE IF LogThrows(c.d, ReceivedLog(data)) THEN Handled(c, "raised")
    ELSE AfterReceivedLog(Log(c, ReceivedLog(data)), f, data, hq, ex)

\* The 'message' listener (content.js 1109-1295) on an event with the given
\* origin whose data decodes to the object data.  An exception of the
\* 'Received message' debugLog call ends the run in the listener's catch block.
OnMessage(c, f, origin, data, hq, ex) ==
    IF ~isPearsonOrigin(f, origin) THEN Handled(c, "untrusted")
    ELSE IF ~data.json THEN Handled(c, "malformed")
    ELSE IF data.source # ProtocolTag THEN Handled(c, "foreign")
    ELSE IF LogThrows(c.d, ReceivedLog(data)) THEN Handled(c, "raised")
    ELSE AfterReceivedLog(Log(c, ReceivedLog(data)), f, data, hq, ex)


---------------------------------------------------------------------------
(* Receiving on the fallback channel: the 'storage' listener *)

\* `${data.action}_${data.messageId || event.key}`
messageSignature(key, data) ==
    IF data.messageId # NoId THEN <<data.action, "id", data.messageId>>
    ELSE <<data.action, "key", key>>

\* processedStorageMessages.add(sig), trimmed to the last 100
RecordProcessed(b, sig) ==
    [b EXCEPT !.processedStorageMessages = SliceLast(Append(@, sig), MAX_PROCESSED_MESSAGES)]

FallbackReceivedLog(data) ==
    LogEntry({"Received", "message", "localStorage"}, Absent, data.action, NoPath, Absent)

\* switch (data.action) of the storage listener
DispatchStorage(c, f, data, hq, ex) ==
    CASE data.action = "analyzeQuestion" ->
            IF ~c.b.analyzing THEN analyzeCurrentPage(c, f, hq, ex) ELSE c
      [] data.action = "updateStatus" ->
            IF c.b.enabled # data.enabled THEN [c EXCEPT !.b.enabled = data.enabled] ELSE c
      [] data.action = "requestQuestionCheck" ->
            IF hq /\ Truthy(c.b.enabled) /\ ~c.b.analyzing
            THEN [c EXCEPT !.tms = @ \cup {[kind |-> "analyze", frame |-> f, id |-> data.messageId,
                                            checkAnalyzing |-> FALSE, due |-> c.t]}]
            ELSE c
      [] OTHER -> c

\* 3. PROCESSING of the storage listener, were debugLog bound; c is the run
\* after the '[Fallback] Received message' log
ProcessStorage(c, f, data, hq, ex) ==
    IF data.path # NoPath /\ Len(data.path[1]) > storageHopLimit THEN Handled(c, "hops")
    ELSE Handled(DispatchStorage(c, f, data, hq, ex), "dispatched")

\* 2. RATE LIMITING of the storage listener and what follows; c is the run
\* after the signature was recorded.  The debugLog call that opens
\* "3. PROCESSING" raises, so the listener ends before the hop check and the
\* action switch.
AfterSignature(c, f, data, hq, ex) ==
    IF (c.t - Get(c.b.lastStorageMessageTimes, ActionKey(data))) < MIN_STORAGE_MESSAGE_INTERVAL
    THEN Handled(c, "ratelimited")
    ELSE IF FallbackLogRaises
    THEN Handled([c EXCEPT !.b.lastStorageMessageTimes = Put(@, ActionKey(data), c.t)], "raised")
    ELSE ProcessStorage(Log([c EXCEPT !.b.lastStorageMessageTimes = Put(@, ActionKey(data), c.t)],
                            FallbackReceivedLog(data)),
                        f, data, hq, ex)

\* event.key.startsWith(PREFIX): keys of the protocol are the positive ones
NoKey == 0
HasPrefix(key) == key # NoKey

\* A storage listener that takes every value for an envelope
OnStorageAnyValue(c, f, key, data, hq, ex) ==
    AfterSignature([c EXCEPT !.b = RecordProcessed(@, messageSignature(key, data))],
                   f, data, hq, ex)

\* A storage listener that applies its rate limit before it records the
\* signature
OnStorageLimitsFirst(c, f, key, data, hq, ex) ==
    IF ~HasPrefix(key) THEN Handled(c, "otherkey")
    ELSE IF ~data.json THEN Handled(c, "malformed")
    ELSE IF data.source # ProtocolTag THEN Handled(c, "foreign")
    ELSE IF messageSignature(key, data) \in Range(c.b.processedStorageMessages)
    THEN Handled(c, "duplicate")
    ELSE IF (c.t - Get(c.b.lastStorageMessageTimes, ActionKey(data))) < MIN_STORAGE_MESSAGE_INTERVAL
    THEN Handled(c, "ratelimited")
    ELSE AfterSignature([c EXCEPT !.b = RecordProcessed(@, messageSignature(key, data))],
                        f, data, hq, ex)

\* The 'storage' listener (content.js 1546-1632) on the event of a write of
\* the text data under key.  Its body is one try block whose catch block
\* only writes to the console; a text JSON.parse rejects ends there.
OnStorage(c, f, key, data, hq, ex) ==
    IF ~HasPrefix(key) THEN Handled(c, "otherkey")
    ELSE IF ~data.json THEN Handled(c, "malformed")
    ELSE IF data.source # ProtocolTag THEN Handled(c, "foreign")
    ELSE IF messageSignature(key, data) \in Range(c.b.processedStorageMessages)
    THEN Handled(c, "duplicate")
    ELSE AfterSignature([c EXCEPT !.b = RecordProcessed(@, messageSignature(key, data))],
                        f, data, hq, ex)

---------------------------------------------------------------------------
(* The state machine *)

NoData == Data(Absent, Absent, Absent, NoId, NoPath)

\* A text that JSON.parse rejects
Malformed == [NoEnvelope EXCEPT !.json = FALSE]

\* A text that JSON.parse accepts and that lacks source: 'pearson_ai_solver'
Markerless == NoEnvelope

\* Add one to the count kept under k
Bump(m, k) == Put(m, k, Get(m, k) + 1)

RECURSIVE BumpAll(_, _)
BumpAll(m, ks) == IF ks = <<>> THEN m ELSE BumpAll(Bump(m, Head(ks)), Tail(ks))

\* The elements of a set in some order, as a sequence
RECURSIVE SeqOf(_)
SeqOf(S) == IF S = {} THEN <<>>
            ELSE LET x == CHOOSE y \in S : TRUE IN <<x>> \o SeqOf(S \ {x})

\* Hand what a handler run of frame f produced to the browser; net0, events0
\* and timers0 are the queues without the event or timer the handler consumed.
\* Events reach a listener in the order they were queued.
Commit(f, c, net0, events0, timers0) ==
    /\ c.nid <= MaxIds + 1
    /\ nextId' = c.nid
    /\ bus' = [bus EXCEPT ![f] = c.b]
    /\ diag' = [diag EXCEPT ![f] = c.d]
    /\ net' = [g \in Frames |->
                 net0[g] \o SeqOf({[origin |-> OriginOf(f), data |-> p.env] :
                                      p \in {q \in c.post : q.to = g}})]
    /\ store' = store \cup {w.key : w \in c.writes}
    /\ storeEvents' = [g \in Frames |->
                         IF g \in StoreReaders(f)
                         THEN events0[g] \o SeqOf({[key |-> w.key, data |-> w.env] : w \in c.writes})
                         ELSE events0[g]]
    /\ timers' = timers0 \cup c.tms
    /\ bg' = [bg EXCEPT ![f] = @ + c.bgNew]
    /\ cbCount' = BumpAll(cbCount, c.called)
    /\ txLog' = txLog \o c.tx

\* The kinds of traffic: status changes (solverStatusChanged propagates
\* updateStatus), manual analysis (manualAnalyze propagates analyzeQuestion
\* with retries), frame discovery (ping with a callback), envelopes that
\* outside windows relayed over long paths, and status changes followed until
\* the localStorage entries are removed again.
Workloads == {"status", "analyze", "ping", "relay", "cleanup", "arrivals", "stats", "loops", "ids",
              "retries", "discovery", "forwarding"}

\* state.enabled after initialize() has asked the background for the solver status
InitEnabled(w) == IF w = "analyze" THEN Yes ELSE No

\* Whether the child frame is served from the top document's origin; manual
\* analysis is followed across two Pearson domains
SameOrigin(w) ==
    IF w = "analyze" THEN {FALSE} ELSE IF w \in {"stats", "loops", "ids", "discovery"} THEN {TRUE} ELSE BOOLEAN

\* The windows whose postMessage raises; frame discovery meets windows it
\* cannot post to
Unreachable(w) == IF w = "ping" THEN {{}, {"ad"}, {"top"}} ELSE {{}}

\* The state after both frames ran initialize(), by workload
InitOf(w) ==
    /\ now = StartTime
    /\ nextId = 1
    /\ sameOrigin \in SameOrigin(w)
    /\ unreachable \in Unreachable(w)
    /\ bus = [f \in Frames |-> [InitBus EXCEPT !.enabled = InitEnabled(w)]]
    /\ diag = [f \in Frames |-> InitDiag]
    /\ net = [f \in Frames |-> <<>>]
    /\ store = {}
    /\ storeEvents = [f \in Frames |-> <<>>]
    /\ timers = {}
    /\ bg = [f \in Frames |-> 0]
    /\ dispatched = [f \in Frames |-> <<>>]
    /\ blocked = [f \in Frames |-> <<>>]
    /\ outcomes = {}
    /\ cbCount = <<>>
    /\ expired = {}
    /\ txLog = <<>>
    /\ injected = 0
    /\ ticks = 0
    /\ workload = w
    /\ loopCalls = 0
    /\ generatedIds = <<>>
    /\ discoveries = <<>>

\* The frames in which the collaborators call send: the user acts in the top document
Callers == {"top"}

\* The data objects the collaborators pass to send
SendData(w) ==
    CASE w = "status" -> {Data("updateStatus", Yes, Absent, NoId, NoPath),
                          Data("updateStatus", No, Absent, NoId, NoPath)}
      [] w = "analyze" -> {Data("analyzeQuestion", Absent, Absent, NoId, NoPath)}
      [] w = "ping" -> {Data("ping", Absent, Absent, NoId, NoPath)}
      [] w = "relay" -> {Data("updateStatus", No, Absent, NoId, NoPath)}
      [] w = "cleanup" -> {Data("updateStatus", Yes, Absent, NoId, NoPath)}
      [] w = "ids" -> {Data("updateStatus", Yes, Absent, NoId, NoPath)}
      [] w = "retries" -> {Data("analyzeQuestion", Absent, Absent, NoId, NoPath)}
      [] w = "forwarding" -> {Data("updateStatus", Yes, Absent, NoId, NoPath),
                              Data("updateStatus", No, Absent, NoId, NoPath)}

\* The options they pass
SendOptions(w) ==
    CASE w = "status" -> {DefaultOptions,
                          [DefaultOptions EXCEPT !.skipDuplicateCheck = TRUE],
                          [DefaultOptions EXCEPT !.skipRateLimiting = TRUE]}
      [] w = "analyze" -> {[DefaultOptions EXCEPT !.retry = TRUE],
                           [DefaultOptions EXCEPT !.retry = TRUE, !.retryDelay = 250]}
      [] w = "ping" -> {[DefaultOptions EXCEPT !.callback = "onReply"],
                        [DefaultOptions EXCEPT !.callback = "onReply", !.retry = TRUE]}
      [] w = "relay" -> {DefaultOptions}
      [] w = "cleanup" -> {DefaultOptions}
      [] w = "ids" -> {DefaultOptions,
                       [DefaultOptions EXCEPT !.skipDuplicateCheck = TRUE, !.skipRateLimiting = TRUE]}
      [] w = "forwarding" -> {DefaultOptions}
      [] w = "retries" -> {[DefaultOptions EXCEPT !.retry = TRUE, !.retryCount = 2],
                           [DefaultOptions EXCEPT !.retry = TRUE],
                           [DefaultOptions EXCEPT !.retry = TRUE, !.retryCount = 0],
                           [DefaultOptions EXCEPT !.retryCount = 2]}

\* A collaborator calls send(action, payload, options) in frame f
Send(f, data, opts) ==
    LET c == sendCrossDomainMessage(Ctx(f), f, data, opts, "caller")
    IN /\ Commit(f, c, net, storeEvents, timers)
       /\ UNCHANGED <<now, sameOrigin, unreachable, dispatched, blocked, expired, injected, ticks, outcomes, workload, loopCalls, generatedIds, discoveries>>

\* The browser takes over what the listener run r on the event ev did
Received(f, ev, r) ==
    /\ Commit(f, r.c, [net EXCEPT ![f] = Tail(@)], storeEvents, timers)
    /\ dispatched' = IF r.outcome = "dispatched"
                     THEN [dispatched EXCEPT ![f] = Bump(@, <<ev.data, "primary">>)]
                     ELSE dispatched
    /\ blocked' = IF r.outcome = "loop"
                  THEN [blocked EXCEPT ![f] = Bump(@, ev.data)]
                  ELSE blocked
    /\ outcomes' = outcomes \cup {<<f, "primary", r.outcome>>}

\* The 'message' listener of frame f runs on the next queued postMessage event
Receive(f, hq, ex) ==
    /\ net[f] # <<>>
    /\ \E r \in {OnMessage(Ctx(f), f, Head(net[f]).origin, Head(net[f]).data, hq, ex)} :
          Received(f, Head(net[f]), r)
    /\ UNCHANGED <<now, sameOrigin, unreachable, expired, injected, ticks, workload, loopCalls, generatedIds, discoveries>>

\* The browser takes over what the storage listener run r on the event ev did
ReceivedStorage(f, ev, r) ==
    /\ Commit(f, r.c, net, [storeEvents EXCEPT ![f] = Tail(@)], timers)
    /\ dispatched' = IF r.outcome = "dispatched"
                     THEN [dispatched EXCEPT ![f] = Bump(@, <<ev.data, "fallback">>)]
                     ELSE dispatched
    /\ outcomes' = outcomes \cup {<<f, "fallback", r.outcome>>}

\* The 'storage' listener of frame f runs on the next queued storage event
ReceiveStorage(f, hq, ex) ==
    /\ storeEvents[f] # <<>>
    /\ ReceivedStorage(f, Head(storeEvents[f]),
                       OnStorage(Ctx(f), f, Head(storeEvents[f]).key,
                                 Head(storeEvents[f]).data, hq, ex))
    /\ UNCHANGED <<now, sameOrigin, unreachable, blocked, expired, injected, ticks, workload, loopCalls, generatedIds, discoveries>>

\* The transmissions of the run c, marked as retries of the transmission id
RetryOf(c, id) == [c EXCEPT !.tx = [i \in DOMAIN @ |-> [@[i] EXCEPT !.retryOf = id]]]

\* The retry timer of a send fires: the bus sends the same data again
RetryFires(tm) ==
    /\ tm \in timers /\ tm.kind = "retry" /\ now >= tm.due
    /\ \E c \in {RetryOf(sendCrossDomainMessage(Ctx(tm.frame), tm.frame, tm.data, tm.opts,
                                                 "retry"), tm.id)} :
          Commit(tm.frame, c, net, storeEvents, timers \ {tm})
    /\ UNCHANGED <<now, sameOrigin, unreachable, dispatched, blocked, expired, injected, ticks, outcomes, workload, loopCalls, generatedIds, discoveries>>

\* A deadline timer that forgets to delete the pending entry
PingTimeoutKeepsEntry(tm) ==
    /\ tm \in timers /\ tm.kind = "pingTimeout" /\ now >= tm.due
    /\ timers' = timers \ {tm}
    /\ expired' = IF tm.id \in DOMAIN bus[tm.frame].pendingPings
                  THEN expired \cup {tm.id} ELSE expired
    /\ UNCHANGED <<now, nextId, sameOrigin, unreachable, bus, diag, net, store, storeEvents, bg,
                   dispatched, blocked, cbCount, txLog, injected, ticks, outcomes, workload, loopCalls, generatedIds, discoveries>>

\* The timeout timer of a tracked ping fires
PingTimeoutFires(tm) ==
    LET f == tm.frame
        pending == tm.id \in DOMAIN bus[f].pendingPings
    IN /\ tm \in timers /\ tm.kind = "pingTimeout" /\ now >= tm.due
       /\ timers' = timers \ {tm}
       /\ bus' = IF pending
                 THEN [bus EXCEPT ![f].pendingPings = [k \in DOMAIN @ \ {tm.id} |-> @[k]]]
                 ELSE bus
       /\ expired' = IF pending THEN expired \cup {tm.id} ELSE expired
       /\ UNCHANGED <<now, nextId, sameOrigin, unreachable, diag, net, store, storeEvents, bg,
                      dispatched, blocked, cbCount, txLog, injected, ticks, outcomes, workload, loopCalls, generatedIds, discoveries>>

\* A cleanup timer that leaves the entry in localStorage
CleanupKeepsEntry(tm) ==
    /\ tm \in timers /\ tm.kind = "cleanup" /\ now >= tm.due
    /\ timers' = timers \ {tm}
    /\ UNCHANGED <<now, nextId, sameOrigin, unreachable, bus, diag, net, store, storeEvents, bg,
                   dispatched, blocked, cbCount, expired, txLog, injected, ticks, outcomes, workload, loopCalls, generatedIds, discoveries>>

\* The cleanup timer of a localStorage write fires: localStorage.removeItem(key).
\* The frames that share the store get a storage event without a new value.
CleanupFires(tm) ==
    /\ tm \in timers /\ tm.kind = "cleanup" /\ now >= tm.due
    /\ timers' = timers \ {tm}
    /\ store' = store \ {tm.id}
    /\ storeEvents' = [g \in Frames |->
                         IF g \in StoreReaders(tm.frame) /\ tm.id \in store
                         THEN Append(storeEvents[g], [key |-> tm.id, data |-> Markerless])
                         ELSE storeEvents[g]]
    /\ UNCHANGED <<now, nextId, sameOrigin, unreachable, bus, diag, net, bg,
                   dispatched, blocked, cbCount, expired, txLog, injected, ticks, outcomes, workload, loopCalls, generatedIds, discoveries>>

\* broadcastViaLocalStorage of the helper the background script injects into
\* the top document: an entry under a fresh key, removed after two seconds
helperCleanupDelay == 2000

BroadcastViaLocalStorage(key, data) ==
    /\ injected < MaxInject
    /\ injected' = injected + 1
    /\ store' = store \cup {key}
    /\ storeEvents' = [g \in Frames |->
                         IF g \in StoreReaders("top")
                         THEN Append(storeEvents[g],
                                     [key |-> key,
                                      data |-> [NoEnvelope EXCEPT !.source = ProtocolTag,
                                                                  !.action = data.action,
                                                                  !.enabled = data.enabled,
                                                                  !.timestamp = now]])
                         ELSE storeEvents[g]]
    /\ timers' = timers \cup {[kind |-> "cleanup", frame |-> "top", id |-> key,
                                due |-> now + helperCleanupDelay]}
    /\ UNCHANGED <<now, nextId, sameOrigin, unreachable, bus, diag, net, bg,
                   dispatched, blocked, cbCount, expired, txLog, ticks, outcomes, workload, loopCalls, generatedIds, discoveries>>

\* Time passes until the next timer is due
AwaitTimer ==
    /\ \E tm \in timers : tm.due > now
    /\ now' = CHOOSE d \in {tm.due : tm \in {x \in timers : x.due > now}} :
                  \A tm \in timers : tm.due > now => d <= tm.due
    /\ UNCHANGED <<nextId, sameOrigin, unreachable, bus, diag, net, store, storeEvents, timers, bg,
                   dispatched, blocked, cbCount, expired, txLog, injected, ticks, outcomes, workload, loopCalls, generatedIds, discoveries>>

\* The delayed reaction to a requestQuestionCheck fires
AnalyzeFires(tm, hq, ex) ==
    LET f == tm.frame
        c == IF tm.checkAnalyzing /\ bus[f].analyzing THEN Ctx(f)
             ELSE analyzeCurrentPage(Ctx(f), f, hq, ex)
    IN /\ tm \in timers /\ tm.kind = "analyze" /\ now >= tm.due
       /\ Commit(f, c, net, storeEvents, timers \ {tm})
       /\ UNCHANGED <<now, sameOrigin, unreachable, dispatched, blocked, expired, injected, ticks, outcomes, workload, loopCalls, generatedIds, discoveries>>

\* The background script answers an analyzeQuestion request of frame f
BgResponse(f, result) ==
    LET c0 == Ctx(f)
        c == IF result = "success"
             THEN [sendCrossDomainMessage(c0, f,
                       Data("questionAnalyzed", Absent, Absent, NoId, NoPath),
                       DefaultOptions, "caller")
                   EXCEPT !.b.analyzing = FALSE]
             ELSE [c0 EXCEPT !.b.analyzing = FALSE]
    IN /\ bg[f] > 0
       /\ Commit(f, [c EXCEPT !.bgNew = -1], net, storeEvents, timers)
       /\ UNCHANGED <<now, sameOrigin, unreachable, dispatched, blocked, expired, injected, ticks, outcomes, workload, loopCalls, generatedIds, discoveries>>

\* Identifiers of messages made by windows outside the model
ExternalIds == {901}

\* Paths an outside window may put on an envelope
A == "mylab"
B == "mylabmastering"
C == "pearson"
ForeignPaths ==
    {<<A, B, A, C, A>>, <<A, B, C, A>>, <<A, B, A, C, A, B>>, <<B, A, B, C, B, C>>,
     <<C, B, C, B, C, B>>}

\* An envelope made by a window outside the model
Foreign(action, enabled, replyTo, id, path) ==
    [NoEnvelope EXCEPT !.source = ProtocolTag, !.action = action, !.enabled = enabled,
                       !.replyTo = replyTo, !.from = C, !.timestamp = now,
                       !.messageId = id, !.path = path]

\* What windows outside the model post to the frames, by workload: a replay
\* of an envelope the bus transmitted, or a second write of an entry the bus
\* wrote to localStorage; an analyzeQuestion without messageId
\* (the background script's broadcast helper); a pong for any ping sent so far,
\* another ping, or a second copy of a ping the top frame sent; an updateStatus that has travelled a long path, once from
\* an origin outside the Pearson domains; texts that are no JSON or no
\* envelope of the protocol, posted or written to localStorage; a localStorage
\* entry under a key of another application; an envelope whose action is a
\* name every object inherits
Event(f, origin, env) ==
    [to |-> f, channel |-> "primary", origin |-> origin, key |-> NoKey, data |-> env]

\* A window of the frame's origin outside the model writes a localStorage entry
\* and frame f gets the storage event
StorageEvent(f, key, env) ==
    [to |-> f, channel |-> "fallback", origin |-> OriginOf(f), key |-> key, data |-> env]

\* Keys of localStorage entries written outside the model
ExternalKeys == {902}

ForeignEvents(w) ==
    CASE w = "status" ->
            {Event("child", MyLabOrigin, tx.env) : tx \in Range(txLog)}
            \cup {StorageEvent("child", k, tx.stored) :
                     k \in ExternalKeys, tx \in {x \in Range(txLog) : x.stored # NoEnvelope}}
      [] w = "analyze" ->
            {Event("child", MyLabOrigin, Foreign("analyzeQuestion", Absent, NoId, NoId, NoPath)),
             Event("child", MyLabOrigin,
                   Foreign("questionAnalyzed", Absent, NoId, CHOOSE i \in ExternalIds : TRUE,
                           SomePath(<<C>>)))}
      [] w = "ping" ->
            {Event("top", MyLabOrigin, Foreign("pong", Absent, r, i, SomePath(<<C>>))) :
                r \in 1..(nextId - 1), i \in ExternalIds}
            \cup {Event("child", MyLabOrigin, Foreign("ping", Absent, NoId, i, SomePath(<<C>>))) :
                     i \in ExternalIds}
            \cup {Event("child", MyLabOrigin, tx.env) :
                     tx \in {x \in Range(txLog) : x.action = "ping"}}
      [] w = "forwarding" ->
            {Event(f, MyLabOrigin, Foreign("updateStatus", Yes, NoId, i, SomePath(p))) :
                f \in Frames, p \in {<<C, A>>, <<C, A, C>>}, i \in ExternalIds}
      [] w = "discovery" ->
            {Event("top", MyLabOrigin, Foreign("pong", Absent, r, i, SomePath(<<C>>))) :
                r \in 1..(nextId - 1), i \in ExternalIds}
      [] w = "relay" ->
            {Event(f, MyLabOrigin, Foreign("updateStatus", Yes, NoId, i, SomePath(p))) :
                f \in Frames, p \in ForeignPaths, i \in ExternalIds}
            \cup {Event("top", o, Foreign("updateStatus", Yes, NoId, i, SomePath(<<C>>))) :
                     o \in {ForeignOrigin, SuffixedOrigin}, i \in ExternalIds}
            \cup {Event("top", MyLabOrigin, text) : text \in {Malformed, Markerless}}
            \cup {StorageEvent("child", k, text) :
                     k \in ExternalKeys, text \in {Malformed, Markerless}}
            \cup {StorageEvent("child", NoKey, Foreign("updateStatus", Yes, NoId, i, NoPath)) :
                     i \in ExternalIds}
            \cup {Event("top", MyLabOrigin, Foreign(name, Absent, NoId, i, SomePath(<<C>>))) :
                     name \in InheritedKeys, i \in ExternalIds}

\* A window outside the model posts a text to a frame, or writes a
\* localStorage entry the frame is told about
Inject(ev) ==
    /\ injected < MaxInject
    /\ net' = IF ev.channel = "primary"
              THEN [net EXCEPT ![ev.to] = Append(@, [origin |-> ev.origin, data |-> ev.data])]
              ELSE net
    /\ storeEvents' = IF ev.channel = "fallback"
                      THEN [storeEvents EXCEPT ![ev.to] = Append(@, [key |-> ev.key, data |-> ev.data])]
                      ELSE storeEvents
    /\ injected' = injected + 1
    /\ UNCHANGED <<now, nextId, sameOrigin, unreachable, bus, diag, store, timers, bg,
                   dispatched, blocked, cbCount, expired, txLog, ticks, outcomes, workload, loopCalls, generatedIds, discoveries>>

\* The advances of Date.now() a workload observes
TickSteps(w) ==
    CASE w = "status" -> {250, 1000, 2000}
      [] w = "analyze" -> {250, 500}
      [] w = "ping" -> {250, 5000}
      [] w = "relay" -> {250, 1000}
      [] w = "stats" -> {1000, 6000}
      [] w = "loops" -> {}
      [] w = "ids" -> {1}
      [] w = "retries" -> {}
      [] w = "forwarding" -> {}

\* Date.now() advances
Tick(d) ==
    /\ ticks < MaxTicks
    /\ ticks' = ticks + 1
    /\ now' = now + d
    /\ UNCHANGED <<nextId, sameOrigin, unreachable, bus, diag, net, store, storeEvents, timers, bg,
                   dispatched, blocked, cbCount, expired, txLog, injected, outcomes, workload, loopCalls, generatedIds, discoveries>>

\* What checkForQuestions() finds in the page, and whether extractQuestionData()
\* gets a question out of it; the pages of the status and relay workloads
\* hold no question
HasQuestions(w) == IF w \in {"analyze", "ping"} THEN BOOLEAN ELSE {FALSE}
Extracts(w) == IF w = "analyze" THEN BOOLEAN ELSE {FALSE}

\* The characters of a decimal numeral
DecimalDigits == <<"0", "1", "2", "3", "4", "5", "6", "7", "8", "9">>

\* A number written out by a template literal
RECURSIVE ToDecimal(_)
ToDecimal(n) == IF n < 10 THEN <<DecimalDigits[n + 1]>>
                ELSE ToDecimal(n \div 10) \o <<DecimalDigits[(n % 10) + 1]>>

\* String.prototype.substr(start, length) on a string held as its characters
substr(str, start, length) ==
    SubSeq(str, start + 1, IF Len(str) < start + length THEN Len(str) ELSE start + length)

\* Nine leading base-36 digits that two draws of Math.random() share
SharedDigits == <<"4", "f", "z", "y", "o", "1", "k", "q", "2">>

\* Math.random().toString(36) of the draws a send can make: 0, 0.5 and two
\* numbers that differ from the tenth base-36 digit on
RandomTexts == {<<"0">>,
                <<"0", ".", "i">>,
                <<"0", ".">> \o SharedDigits \o <<"a">>,
                <<"0", ".">> \o SharedDigits \o <<"b">>}

\* A messageId that keeps a tenth digit of the draw
messageIdTextTenDigits(t, r) ==
    <<"m", "s", "g", "_">> \o ToDecimal(t) \o <<"_">> \o substr(r, 2, 10)

\* The messageId a send generates at time t from the draw r
messageIdText(t, r) ==
    <<"m", "s", "g", "_">> \o ToDecimal(t) \o <<"_">> \o substr(r, 2, 9)

\* A collaborator calls send in frame f, and Math.random() returns the draw r
SendDrawing(f, data, opts, r) ==
    LET c == sendCrossDomainMessage(Ctx(f), f, data, opts, "caller")
    IN /\ Commit(f, c, net, storeEvents, timers)
       /\ generatedIds' = Append(generatedIds, [at |-> now, random |-> r, id |-> messageIdText(now, r)])
       /\ UNCHANGED <<now, sameOrigin, unreachable, dispatched, blocked, expired, injected, ticks, outcomes, workload, loopCalls, discoveries>>

\* The steps of the collaborators and of the outside world
CallerSends == \E f \in Callers, data \in SendData(workload), opts \in SendOptions(workload) :
                  Send(f, data, opts)
Receives == \E f \in Frames, hq \in HasQuestions(workload), ex \in Extracts(workload) :
                Receive(f, hq, ex)
StorageReceives == \E f \in Frames, hq \in HasQuestions(workload), ex \in Extracts(workload) :
                       ReceiveStorage(f, hq, ex)
Injects == \E ev \in ForeignEvents(workload) : Inject(ev)
Ticks == \E d \in TickSteps(workload) : Tick(d)

DrawingSends == \E f \in Callers, data \in SendData(workload), opts \in SendOptions(workload),
                   r \in RandomTexts : SendDrawing(f, data, opts, r)

\* Status changes: no retries, no pings, no page analysis
NextStatus ==
    \/ CallerSends
    \/ Receives
    \/ StorageReceives
    \/ Injects
    \/ Ticks

SpecStatus == InitOf("status") /\ [][NextStatus]_vars

\* Manual analysis: analyzeQuestion with retries, page analysis in the frames
NextAnalyze ==
    \/ CallerSends
    \/ Receives
    \/ \E tm \in timers : RetryFires(tm)
    \/ \E tm \in timers, hq \in HasQuestions(workload), ex \in Extracts(workload) :
          AnalyzeFires(tm, hq, ex)
    \/ \E f \in Frames, result \in {"fail", "success"} : BgResponse(f, result)
    \/ Injects
    \/ Ticks

SpecAnalyze == InitOf("analyze") /\ [][NextAnalyze]_vars

\* Frame discovery: pings with callbacks, pongs, ping timeouts
NextPing ==
    \/ CallerSends
    \/ Receives
    \/ \E tm \in timers : RetryFires(tm)
    \/ \E tm \in timers : PingTimeoutFires(tm)
    \/ Injects
    \/ Ticks

SpecPing == InitOf("ping") /\ [][NextPing]_vars

\* Relayed envelopes: long paths arrive, status changes are forwarded
NextRelay ==
    \/ CallerSends
    \/ Receives
    \/ StorageReceives
    \/ Injects
    \/ Ticks

SpecRelay == InitOf("relay") /\ [][NextRelay]_vars

\* A long run of envelopes from one window of the page: each has a messageId
\* of its own or repeats the oldest one the frame still remembers, and is
\* posted when the frame has handled the one before
FirstArrivalId == 1001
ArrivalIds(f) ==
    IF bus[f].receivedMessageIds = <<>> THEN {FirstArrivalId}
    ELSE {bus[f].receivedMessageIds[Len(bus[f].receivedMessageIds)] + 1,
          Head(bus[f].receivedMessageIds)}

Arrive(f, id) ==
    /\ injected < MaxArrivals
    /\ net[f] = <<>>
    /\ net' = [net EXCEPT ![f] = Append(@, [origin |-> MyLabOrigin,
                                            data |-> Foreign("questionAnalyzed", Absent, NoId,
                                                             id, SomePath(<<C>>))])]
    /\ injected' = injected + 1
    /\ UNCHANGED <<now, nextId, sameOrigin, unreachable, bus, diag, store, storeEvents, timers, bg,
                   dispatched, blocked, cbCount, expired, txLog, ticks, outcomes, workload, loopCalls, generatedIds, discoveries>>

Arrivals == \E id \in ArrivalIds("child") : Arrive("child", id)

NextArrivals ==
    \/ Arrivals
    \/ Receives

SpecArrivals == InitOf("arrivals") /\ [][NextArrivals]_vars

\* The collector's functions called by a script of the page or from the
\* console, in the top document: one workload follows the statistics of a
\* pair over many records, the other the circular paths
TrackedPair == <<"sent", "updateStatus">>
PlainPair == <<"received", "ping">>
LoopingPath == <<A, B, A, C, A>>
LoopFreePath == <<A, B, A, C>>

\* How many records of pair k, and how many loop checks, a workload makes
RecordCalls(w, k) ==
    IF k = TrackedPair THEN (IF w = "stats" THEN MaxRecords ELSE FewRecords)
    ELSE IF w = "stats" THEN FewLoops + 1 ELSE 0
LoopCalls(w) == IF w = "stats" THEN FewLoops ELSE MaxLoops

\* PearsonAiDebug.recordMessageStat(category, action, data)
RecordCall(f, k, hasData) ==
    /\ ~RecordThrows(diag[f], k[1], k[2])
    /\ (IF k \in DOMAIN diag[f].stats THEN diag[f].stats[k].count ELSE 0) < RecordCalls(workload, k)
    /\ diag' = [diag EXCEPT ![f] = recordMessageStat(@, k[1], k[2], hasData, now)]
    /\ UNCHANGED <<now, nextId, sameOrigin, unreachable, bus, net, store, storeEvents, timers, bg,
                   dispatched, blocked, cbCount, expired, txLog, injected, ticks, outcomes,
                   workload, loopCalls, generatedIds, discoveries>>

\* PearsonAiDebug.detectMessageLoop(path)
LoopCall(f, path) ==
    /\ loopCalls < LoopCalls(workload)
    /\ loopCalls' = loopCalls + 1
    /\ diag' = [diag EXCEPT ![f] = detectMessageLoop(@, path, now)]
    /\ UNCHANGED <<now, nextId, sameOrigin, unreachable, bus, net, store, storeEvents, timers, bg,
                   dispatched, blocked, cbCount, expired, txLog, injected, ticks, outcomes,
                   workload, generatedIds, discoveries>>

\* PearsonAiDebug.resetDebugStats(), called while the statistics are as
\* debugUtils.js set them up
ResetCall(f) ==
    /\ ReportThrows(diag[f])
    /\ diag' = [diag EXCEPT ![f] = resetDebugStats(@)]
    /\ UNCHANGED <<now, nextId, sameOrigin, unreachable, bus, net, store, storeEvents, timers, bg,
                   dispatched, blocked, cbCount, expired, txLog, injected, ticks, outcomes,
                   workload, loopCalls, generatedIds, discoveries>>

NextCollector ==
    \/ RecordCall("top", TrackedPair, TRUE)
    \/ RecordCall("top", PlainPair, FALSE)
    \/ \E path \in {LoopingPath, LoopFreePath} : LoopCall("top", path)
    \/ ResetCall("top")
    \/ Ticks

SpecCollector == (InitOf("stats") \/ InitOf("loops")) /\ [][NextCollector]_vars

\* Status changes and the life of their localStorage entries
Cleanups == \E tm \in timers : CleanupFires(tm)
HelperWrites == \E key \in ExternalKeys, data \in SendData(workload) :
                   BroadcastViaLocalStorage(key, data)

\* The user switches the solver on, at most twice
MaxCleanupSends == 2
StatusChanges == nextId <= MaxCleanupSends /\ CallerSends

NextCleanup ==
    \/ StatusChanges
    \/ Receives
    \/ StorageReceives
    \/ HelperWrites
    \/ Cleanups
    \/ AwaitTimer

\* setTimeout callbacks run once they are due, and time does not stand still
SpecCleanup ==
    /\ InitOf("cleanup")
    /\ [][NextCleanup]_vars
    /\ WF_vars(AwaitTimer)
    /\ WF_vars(Cleanups)

\* The user switches the solver once and a third window reports a change it
\* relayed; the frames forward the change
FirstSend == nextId = 1 /\ CallerSends

NextForwarding ==
    \/ FirstSend
    \/ Injects
    \/ Receives
    \/ StorageReceives
    \/ Cleanups
    \/ AwaitTimer

\* Queued events reach their listeners, due timers fire, time does not stand still
SpecForwarding ==
    /\ InitOf("forwarding")
    /\ [][NextForwarding]_vars
    /\ WF_vars(Receives)
    /\ WF_vars(StorageReceives)
    /\ WF_vars(Cleanups)
    /\ WF_vars(AwaitTimer)

\* The wait of discoverFrames for the pongs
discoveryWait == 2000

\* The options discoverFrames passes with its ping; the callback only logs
DiscoveryOptions ==
    [DefaultOptions EXCEPT !.retry = TRUE, !.retryCount = 2, !.callback = "onReply"]

\* ping.response of an entry of window.pendingPings
Response(entry) == IF "response" \in DOMAIN entry THEN entry.response ELSE Absent

\* Object.values(window.pendingPings).filter(ping => ping.response)
\*     .map(ping => ping.response), the entries taken in the order of their keys
RECURSIVE DiscoveredFrames(_, _)
DiscoveredFrames(pendingPings, ids) ==
    IF ids = {} THEN <<>>
    ELSE LET id == CHOOSE x \in ids : \A y \in ids : x <= y
             rest == DiscoveredFrames(pendingPings, ids \ {id})
         IN IF Response(pendingPings[id]) # Absent
            THEN <<Response(pendingPings[id])>> \o rest
            ELSE rest

\* window.discoverFrames(callback): the ping is sent and the collection timer set
discoverFrames(c, f) ==
    LET c1 == sendCrossDomainMessage(c, f, Data("ping", Absent, Absent, NoId, NoPath),
                                     DiscoveryOptions, "caller")
    IN [c1 EXCEPT !.tms = @ \cup {[kind |-> "discovery", frame |-> f, id |-> c.nid,
                                     ping |-> c1.ret, due |-> c.t + discoveryWait]}]

\* A collaborator calls discoverFrames in frame f
Discover(f) ==
    /\ Commit(f, discoverFrames(Ctx(f), f), net, storeEvents, timers)
    /\ UNCHANGED <<now, sameOrigin, unreachable, dispatched, blocked, expired, injected, ticks,
                   outcomes, workload, loopCalls, generatedIds, discoveries>>

\* The pongs frame f's switch ran on that answer the ping with messageId id
Answers(f, id) ==
    {k[1] : k \in {x \in DOMAIN dispatched[f] : x[1].action = "pong" /\ x[1].replyTo = id}}

\* The collection timer of discoverFrames fires: the callback gets the array
DiscoveryFires(tm) ==
    /\ tm \in timers /\ tm.kind = "discovery" /\ now >= tm.due
    /\ timers' = timers \ {tm}
    /\ discoveries' = Append(discoveries,
                             [call |-> tm.id, ping |-> tm.ping, at |-> now,
                              answers |-> Answers(tm.frame, tm.ping),
                              frames |-> DiscoveredFrames(bus[tm.frame].pendingPings,
                                                          DOMAIN bus[tm.frame].pendingPings)])
    /\ UNCHANGED <<now, nextId, sameOrigin, unreachable, bus, diag, net, store, storeEvents, bg,
                   dispatched, blocked, cbCount, expired, txLog, injected, ticks, outcomes,
                   workload, loopCalls, generatedIds>>

\* Frame discovery is started once; the iframe and another window answer
MaxDiscoveries == 1
Discovers == nextId <= MaxDiscoveries /\ \E f \in Callers : Discover(f)

NextDiscovery ==
    \/ Discovers
    \/ Receives
    \/ \E tm \in timers : RetryFires(tm)
    \/ \E tm \in timers : PingTimeoutFires(tm)
    \/ \E tm \in timers : DiscoveryFires(tm)
    \/ Injects
    \/ AwaitTimer

SpecDiscovery == InitOf("discovery") /\ [][NextDiscovery]_vars

\* Manual analysis is requested, at most twice, in a page without questions;
\* the bus retries
MaxRetrySends == 2
RetrySends == nextId <= MaxRetrySends /\ CallerSends

NextRetries ==
    \/ RetrySends
    \/ Receives
    \/ StorageReceives
    \/ \E tm \in timers : RetryFires(tm)
    \/ Cleanups
    \/ AwaitTimer

\* setTimeout callbacks run once they are due, and time does not stand still
SpecRetries ==
    /\ InitOf("retries")
    /\ [][NextRetries]_vars
    /\ WF_vars(AwaitTimer)
    /\ WF_vars(\E tm \in timers : RetryFires(tm))

\* Sends whose messageIds are written out, in the same and in later milliseconds
NextIds ==
    \/ DrawingSends
    \/ Receives
    \/ StorageReceives
    \/ Ticks

SpecIds == InitOf("ids") /\ [][NextIds]_vars

---------------------------------------------------------------------------
(* Vocabulary of the properties *)

\* The step is a run of frame f's 'message' listener on the head of its queue
PrimaryStep(f) == net[f] # <<>> /\ net'[f] = Tail(net[f])

\* The step is a run of frame f's 'storage' listener on the head of its queue
StorageStep(f) == storeEvents[f] # <<>> /\ storeEvents'[f] = Tail(storeEvents[f])

RECURSIVE SumOver(_, _)
SumOver(m, ks) ==
    IF ks = {} THEN 0
    ELSE LET k == CHOOSE x \in ks : TRUE IN m[k] + SumOver(m, ks \ {k})

\* How often frame f's action switches ran on an envelope with messageId id
Dispatches(f, id) ==
    SumOver(dispatched[f], {k \in DOMAIN dispatched[f] : k[1].messageId = id})

\* The step leaves frame f's trackers alone and hands nothing to the browser
DropsOnly(f) ==
    /\ bus'[f] = bus[f]
    /\ dispatched'[f] = dispatched[f]
    /\ nextId' = nextId
    /\ timers' = timers
    /\ store' = store
    /\ storeEvents' = storeEvents
    /\ cbCount' = cbCount
    /\ bg' = bg
    /\ txLog' = txLog
    /\ \A g \in Frames \ {f} : net'[g] = net[g]

---------------------------------------------------------------------------
(* Delivery over both channels *)

---------------------------------------------------------------------------
(* Dedup by messageId on the primary channel *)

\* C2: an envelope arriving by postMessage whose messageId is in the
\* receiver's window.receivedMessageIds is not dispatched: the listener run
\* changes no tracker of the frame, posts and writes nothing, starts no timer
\* and invokes no callback.
C2_KnownIdIsDropped ==
    [][\A f \in Frames :
          (/\ PrimaryStep(f)
           /\ Head(net[f]).data.messageId # NoId
           /\ Head(net[f]).data.messageId \in Range(bus[f].receivedMessageIds))
          => DropsOnly(f)]_vars

\* A frame has taken two updateStatus envelopes off its queue that carried one
\* and the same messageId, and its switch ran once
C2_ReplayArrived ==
    \E f \in Frames :
        LET k == <<"received", "updateStatus">> IN
        /\ Len(bus[f].receivedMessageIds) = 1
        /\ k \in DOMAIN diag[f].stats
        /\ diag[f].stats[k].count = 2
        /\ Dispatches(f, bus[f].receivedMessageIds[1]) = 1

---------------------------------------------------------------------------
(* Throttling of the primary channel *)

\* The caller of the transmission passed skipRateLimiting itself
CallerSkipped(tx) == tx.skipRateLimiting /\ tx.origin # "retry"

\* C3: two primary-channel transmissions of one action tag by one frame,
\* retries of the bus included, are at least 500 ms apart unless the caller
\* of one of them passed skipRateLimiting.
C3_TransmissionsSpaced ==
    \A i, j \in 1..Len(txLog) :
        (/\ i < j
         /\ txLog[i].frame = txLog[j].frame
         /\ txLog[i].action = txLog[j].action
         /\ txLog[j].time - txLog[i].time < 500)
        => (CallerSkipped(txLog[i]) \/ CallerSkipped(txLog[j]))

\* The primary-channel transmissions of action k by frame f, and the last of them
TxIndices(f, k) == {i \in 1..Len(txLog) : txLog[i].frame = f /\ txLog[i].action = k}
LastTx(f, k) == txLog[CHOOSE i \in TxIndices(f, k) : \A j \in TxIndices(f, k) : j <= i]

\* What a call of window.sendCrossDomainMessage(data, opts) in frame f would
\* return in the current state
WouldReturn(f, data, opts) == sendCrossDomainMessage(Ctx(f), f, data, opts, "caller").ret

\* C4: after a send of an action tag succeeded at time t, with no other send of
\* the tag since, a send of the tag without bypass flags returns null before
\* t + 500 ms and returns a messageId from t + 501 ms on.
C4_SecondSendByInterval ==
    \A f \in Frames, data \in SendData(workload) :
        LET k == ActionKey(data) IN
        (/\ TxIndices(f, k) # {}
         /\ Get(bus[f].messageThrottleTimestamps, k) = LastTx(f, k).time)
        => LET r == WouldReturn(f, data, DefaultOptions)
               d == now - LastTx(f, k).time
           IN /\ d < 500 => r = Null
              /\ d >= 501 => r >= 1

---------------------------------------------------------------------------
(* Suppression of repeated content *)

\* The fingerprint of data was recorded by frame f less than 2000 ms ago
SentRecently(f, data) ==
    /\ messageHash(data) \in DOMAIN bus[f].sentMessageHashes
    /\ now - bus[f].sentMessageHashes[messageHash(data)] < 2000

\* C5: of two sends of the same action and payload within 2000 ms the first
\* returns a messageId and the second returns null; with skipDuplicateCheck
\* the second is not rejected for its fingerprint.
C5_SameContentTwice ==
    \A f \in Frames, data \in SendData(workload) :
        LET free == ~RateLimited(bus[f], data, DefaultOptions, now) IN
        /\ (~SentRecently(f, data) /\ free) => WouldReturn(f, data, DefaultOptions) >= 1
        /\ SentRecently(f, data) => WouldReturn(f, data, DefaultOptions) = Null
        /\ (SentRecently(f, data) /\ free)
           => WouldReturn(f, data, [DefaultOptions EXCEPT !.skipDuplicateCheck = TRUE]) # Null

---------------------------------------------------------------------------
(* Pings, pongs and the ping deadline *)

\* How often frame f's switch ran on a pong that answers the ping id
PongsDispatched(f, id) ==
    SumOver(dispatched[f],
            {k \in DOMAIN dispatched[f] : k[1].action = "pong" /\ k[1].replyTo = id})

\* The listener run of this step reached the action switch
SwitchRan(f) == PrimaryStep(f) /\ dispatched'[f] # dispatched[f]

\* C6: a pong whose replyTo names a pending ping invokes the ping's callback
\* and removes the pending entry; the callback of a ping is invoked at most
\* once, whatever further pongs with that replyTo arrive.
C6_PongResolvesOnce ==
    [][/\ \A id \in DOMAIN cbCount' :
             /\ cbCount'[id] <= 1
             /\ \A f \in Frames : id \notin DOMAIN bus'[f].pendingPings
       /\ \A f \in Frames :
             (/\ SwitchRan(f)
              /\ Head(net[f]).data.action = "pong"
              /\ Head(net[f]).data.replyTo \in DOMAIN bus[f].pendingPings)
             => Get(cbCount', Head(net[f]).data.replyTo) = 1]_vars

\* The callback of a ping ran once although two pongs answering it were dispatched
C6_SecondPongArrived ==
    \E id \in DOMAIN cbCount : cbCount[id] = 1 /\ PongsDispatched("top", id) >= 2

\* C7: once the deadline timer of an unanswered ping has fired, the ping is
\* not pending, its callback has not been invoked and no later pong invokes
\* it; a deadline timer that fires for a ping no longer pending changes nothing.
C7_DeadlinePurges ==
    [][/\ \A id \in expired' :
             /\ Get(cbCount', id) = 0
             /\ \A f \in Frames : id \notin DOMAIN bus'[f].pendingPings
       /\ \A tm \in timers :
             (/\ tm.kind = "pingTimeout"
              /\ timers' = timers \ {tm}
              /\ tm.id \notin DOMAIN bus[tm.frame].pendingPings)
             => /\ bus' = bus
                /\ cbCount' = cbCount
                /\ expired' = expired
                /\ net' = net
                /\ txLog' = txLog]_vars

\* A pong answering a ping was dispatched after the ping's deadline had purged it
C7_LatePongArrived ==
    \E id \in expired : PongsDispatched("top", id) >= 1 /\ Get(cbCount, id) = 0

\* C10: a frame whose switch runs on a ping transmits a pong whose replyTo is
\* the ping's messageId, and in no state would the pong send return null:
\* neither the throttle timestamp of 'pong' nor the recorded fingerprints
\* stop it.
C10_PingIsAnswered ==
    [][\A f \in Frames :
          /\ \A hq \in BOOLEAN :
                OnPing(Ctx(f), f, [NoEnvelope EXCEPT !.messageId = nextId], hq).ret >= 1
          /\ (SwitchRan(f) /\ Head(net[f]).data.action = "ping")
             => /\ Len(txLog') = Len(txLog) + 1
                /\ LET tx == txLog'[Len(txLog')] IN
                   /\ tx.frame = f
                   /\ tx.action = "pong"
                   /\ tx.env.replyTo = Head(net[f]).data.messageId
                   /\ \A g \in Targets(f) \ unreachable :
                         net'[g] # <<>> /\ net'[g][Len(net'[g])].data = tx.env]_vars

\* A frame answered two pings less than 500 ms apart with pongs of one fingerprint
C10_PongWhileThrottled ==
    \E i, j \in 1..Len(txLog) :
        /\ i < j
        /\ txLog[i].action = "pong" /\ txLog[j].action = "pong"
        /\ txLog[i].frame = txLog[j].frame
        /\ txLog[j].time - txLog[i].time < 500
        /\ txLog[i].env.hasQuestions = txLog[j].env.hasQuestions
        /\ txLog[i].env.replyTo # txLog[j].env.replyTo

---------------------------------------------------------------------------
(* Loop detection on the primary channel *)

\* Some Peer Identifier occurs three times or more in the path
ThreeOccurrences(path) == \E x \in Range(path) : CountIn(path, x) >= 3

\* The listener run of this step took an envelope with a path past the dedup
\* check, to the loop detection
ReachedLoopCheck(f) ==
    /\ PrimaryStep(f)
    /\ Head(net[f]).data.path # NoPath
    /\ Head(net[f]).data.messageId \notin Range(bus[f].receivedMessageIds)
    /\ Head(net[f]).data.messageId \in Range(bus'[f].receivedMessageIds)

\* The listener run of this step rejected its envelope as a loop
RejectedAsLoop(f) == PrimaryStep(f) /\ blocked'[f] # blocked[f]

\* C8: an envelope is rejected as a loop exactly if some Peer Identifier
\* occurs three times or more in its path, whichever frame receives it.
C8_LoopIffThreeOccurrences ==
    [][\A f \in Frames :
          ReachedLoopCheck(f)
          => (RejectedAsLoop(f) <=> ThreeOccurrences(Head(net[f]).data.path[1]))]_vars

\* C9: an envelope rejected as a loop is not dispatched and adds a Circular
\* Path Record with its path to the diagnostics, so that the loop count of the
\* report grows by one.
C9_LoopIsRecorded ==
    [][\A f \in Frames :
          RejectedAsLoop(f)
          => /\ dispatched'[f] = dispatched[f]
             /\ ReportLoops(diag'[f]) = ReportLoops(diag[f]) + 1
             /\ diag'[f].circularPaths[ReportLoops(diag'[f])].path =
                    Head(net[f]).data.path[1]]_vars

---------------------------------------------------------------------------
(* Replies are terminal *)

\* The step hands no envelope to either channel
TransmitsNothing ==
    /\ txLog' = txLog
    /\ store' = store
    /\ storeEvents' = storeEvents

\* C11: a listener run on a pong transmits nothing, on the primary channel or
\* on the fallback channel; a listener run on a ping transmits at most one
\* envelope, a pong that answers this ping, and never the ping itself.
C11_RepliesAreTerminal ==
    [][\A f \in Frames :
          /\ (PrimaryStep(f) /\ Head(net[f]).data.action = "pong")
             => /\ TransmitsNothing
                /\ \A g \in Frames \ {f} : net'[g] = net[g]
          /\ (PrimaryStep(f) /\ Head(net[f]).data.action = "ping")
             => /\ Len(txLog') <= Len(txLog) + 1
                /\ \A i \in (Len(txLog) + 1)..Len(txLog') :
                      /\ txLog'[i].action = "pong"
                      /\ txLog'[i].env.replyTo = Head(net[f]).data.messageId
                /\ \A g \in Frames \ {f} :
                      \/ net'[g] = net[g]
                      \/ /\ Len(txLog') = Len(txLog) + 1
                         /\ net'[g] = Append(net[g], [origin |-> OriginOf(f),
                                                      data |-> txLog'[Len(txLog')].env])
                /\ store' = store
                /\ storeEvents' = storeEvents]_vars

\* A whole exchange took place: the top frame's ping was answered by a pong
\* of the child frame, and the top frame's switch ran on that pong and invoked
\* the callback
C11_ExchangeCompleted ==
    \E id \in DOMAIN cbCount :
        /\ cbCount[id] = 1
        /\ PongsDispatched("top", id) >= 1
        /\ \E i \in 1..Len(txLog) :
              /\ txLog[i].frame = "child"
              /\ txLog[i].action = "pong"
              /\ txLog[i].env.replyTo = id

---------------------------------------------------------------------------
(* Repeated discovery pings *)

\* C12: a ping whose messageId is already in the receiver's
\* window.receivedMessageIds is still dispatched and answered with a pong
\* whose replyTo is that messageId.
C12_KnownPingIsAnswered ==
    [][\A f \in Frames :
          (/\ PrimaryStep(f)
           /\ Head(net[f]).data.action = "ping"
           /\ Head(net[f]).data.messageId # NoId
           /\ Head(net[f]).data.messageId \in Range(bus[f].receivedMessageIds))
          => /\ SwitchRan(f)
             /\ Len(txLog') = Len(txLog) + 1
             /\ txLog'[Len(txLog')].action = "pong"
             /\ txLog'[Len(txLog')].env.replyTo = Head(net[f]).data.messageId]_vars

---------------------------------------------------------------------------
(* Origin validation *)

\* The origins the predicate is asked about
Origins ==
    {MyLabOrigin, MasteringOrigin, PearsonOrigin, CmgOrigin, MasteringSiteOrigin,
     ForeignOrigin, PrefixedOrigin, SuffixedOrigin}

AllowListedDomains ==
    {<<"pearson", ".", "com">>, <<"pearsoncmg", ".", "com">>,
     <<"pearsonmylabandmastering", ".", "com">>}

\* The host of an origin: what follows the scheme
HostOf(origin) == Tail(origin)

\* The host is the domain itself or a dot-separated subdomain of it
HostWithin(host, domain) ==
    \/ host = domain
    \/ Len(host) > Len(domain) + 1 /\ EndsWith(host, <<".">> \o domain)

\* C13: isPearsonOrigin(origin) is true exactly if origin is the frame's own
\* origin or its host is an allow-listed domain or a dot-separated subdomain
\* of one; an origin that only has an allowed host name inside the name of
\* another host is not trusted.
C13_TrustedIffAllowListed ==
    \A f \in Frames, origin \in Origins :
        isPearsonOrigin(f, origin)
        <=> \/ origin = OriginOf(f)
            \/ \E domain \in AllowListedDomains : HostWithin(HostOf(origin), domain)

\* C14: a postMessage event whose origin isPearsonOrigin rejects is dropped
\* without side effects: the frame's trackers and state, its diagnostics and
\* its timers are unchanged, no switch runs, nothing is posted or written.
C14_UntrustedIsDropped ==
    [][\A f \in Frames :
          (PrimaryStep(f) /\ ~isPearsonOrigin(f, Head(net[f]).origin))
          => /\ DropsOnly(f)
             /\ diag' = diag
             /\ blocked' = blocked
             /\ expired' = expired]_vars

\* An envelope from an origin outside the Pearson domains was taken off the
\* queue and has left no trace
C14_UntrustedArrived ==
    /\ <<"top", "primary", "untrusted">> \in outcomes
    /\ injected = 1
    /\ \A f \in Frames :
          /\ net[f] = <<>>
          /\ diag[f] = InitDiag
          /\ bus[f] = [InitBus EXCEPT !.enabled = InitEnabled(workload)]
    /\ txLog = <<>>

---------------------------------------------------------------------------
(* Texts that are no envelope *)

\* The text is no JSON, or the value it decodes to lacks the protocol marker
NoProtocolEnvelope(text) == ~text.json \/ text.source # ProtocolTag

\* The step leaves frame f and everything it could hand to the browser alone
LeavesNoTrace(f) ==
    /\ bus'[f] = bus[f]
    /\ diag' = diag
    /\ dispatched' = dispatched
    /\ blocked' = blocked
    /\ nextId' = nextId
    /\ timers' = timers
    /\ store' = store
    /\ cbCount' = cbCount
    /\ expired' = expired
    /\ bg' = bg
    /\ txLog' = txLog

\* C15: on the primary channel and on the fallback channel a text that is not
\* well-formed JSON, or that decodes to a value without
\* source = 'pearson_ai_solver', is dropped: the listener run ends normally,
\* no switch runs, and the dedup records and every other state of the bus are
\* unchanged.
C15_NoEnvelopeIsDropped ==
    [][\A f \in Frames :
          /\ (PrimaryStep(f) /\ NoProtocolEnvelope(Head(net[f]).data))
             => /\ LeavesNoTrace(f)
                /\ storeEvents' = storeEvents
                /\ \A g \in Frames \ {f} : net'[g] = net[g]
                /\ outcomes' \ outcomes \subseteq
                      {<<f, "primary", o>> : o \in {"untrusted", "malformed", "foreign"}}
          /\ (StorageStep(f) /\ NoProtocolEnvelope(Head(storeEvents[f]).data))
             => /\ LeavesNoTrace(f)
                /\ net' = net
                /\ \A g \in Frames \ {f} : storeEvents'[g] = storeEvents[g]
                /\ outcomes' \ outcomes \subseteq
                      {<<f, "fallback", o>> : o \in {"otherkey", "malformed", "foreign"}}]_vars

\* The child frame's storage listener ran on an entry of the protocol's key
\* space whose value is no JSON, and the frame is as it was set up
C15_MalformedArrived ==
    /\ <<"child", "fallback", "malformed">> \in outcomes
    /\ bus["child"] = [InitBus EXCEPT !.enabled = InitEnabled(workload)]
    /\ diag["child"] = InitDiag
    /\ storeEvents["child"] = <<>>

---------------------------------------------------------------------------
(* What a send returns *)

\* C16: in every state, for every action and options, a call of
\* window.sendCrossDomainMessage returns a messageId or null and raises no
\* exception; a send the throttle or the fingerprint check refuses returns null.
C16_SendReturnsIdOrNull ==
    \A f \in Frames, data \in SendData(workload), opts \in SendOptions(workload) :
        /\ WouldReturn(f, data, opts) # Thrown
        /\ (RateLimited(bus[f], data, opts, now) \/ DuplicateContent(bus[f], data, opts, now))
           => WouldReturn(f, data, opts) = Null

---------------------------------------------------------------------------
(* Isolation of the targets of a send *)

\* C17: a primary-channel send posts to every window of the frame (the parent,
\* each iframe) whose postMessage does not raise, whichever of the others
\* raise, and a send that is not refused returns its messageId whatever
\* windows cannot be reached.
C17_TargetsAreIsolated ==
    /\ \A i \in 1..Len(txLog) :
          /\ txLog[i].posted = Range(PostTargets(txLog[i].frame)) \ unreachable
          /\ txLog[i].id >= 1
    /\ \A f \in Frames, data \in SendData(workload), opts \in SendOptions(workload) :
          (~RateLimited(bus[f], data, opts, now) /\ ~DuplicateContent(bus[f], data, opts, now))
          => WouldReturn(f, data, opts) = nextId

\* The top frame's ping raised at the first iframe and reached the second,
\* whose listener dispatched it
C17_FirstTargetFailed ==
    /\ unreachable = {"ad"}
    /\ Head(PostTargets("top")) = "ad"
    /\ \E i \in 1..Len(txLog) :
          /\ txLog[i].frame = "top"
          /\ txLog[i].posted = {"child"}
          /\ Get(dispatched["child"], <<txLog[i].env, "primary">>) = 1

---------------------------------------------------------------------------
(* Writes to the fallback store *)

\* The transmissions whose envelope the frame also wrote to localStorage
WrittenTx == {i \in 1..Len(txLog) : txLog[i].written}

---------------------------------------------------------------------------
(* Removal of the entries of the fallback store *)

\* The keys under which entries of the protocol are written
StoreKeys == 1..(MaxIds + 1) \cup ExternalKeys

\* C19: every entry written to localStorage, by a frame's send or by the
\* background's helper, is removed again by its cleanup timer; when no
\* cleanup timer is pending the store holds no entry of the protocol.
C19_EntriesAreRemoved ==
    /\ []((\A tm \in timers : tm.kind # "cleanup") => store = {})
    /\ \A key \in StoreKeys : (key \in store) ~> (key \notin store)

\* An entry a frame wrote has been removed one second later, and so has one
\* of the background's helper
C19_EntryRemoved ==
    /\ \E i \in WrittenTx : txLog[i].id \notin store /\ now >= txLog[i].time + storageCleanupDelay
    /\ injected = 1
    /\ store = {}

---------------------------------------------------------------------------
(* The path of the envelopes a send emits *)

\* The path the caller supplied with the local Peer Identifier appended, or
\* the one-element path when the caller supplied none
ExtendedPath(f, path) ==
    IF path = NoPath THEN SomePath(<<detectPearsonDomain(f)>>)
    ELSE SomePath(Append(path[1], detectPearsonDomain(f)))

\* C20: the envelope of a successful send has, on the primary channel and in
\* the localStorage entry when one is written, the caller's path with the
\* sender's own identifier appended.
C20_PathIsExtended ==
    \A i \in 1..Len(txLog) :
       /\ txLog[i].env.path = ExtendedPath(txLog[i].frame, txLog[i].path)
       /\ txLog[i].written =>
             txLog[i].stored.path = ExtendedPath(txLog[i].frame, txLog[i].path)

---------------------------------------------------------------------------
(* The record of outgoing messageIds *)

\* The run of a call of the primary send in frame f in the current state
WouldSend(f, data, opts) == originalSend(Ctx(f), f, data, opts, "caller")

\* C21: a send that passes the rate limiter records its fresh messageId in
\* window.sentMessageIds, whether it transmits or is rejected for its
\* fingerprint and returns null.
C21_EveryIdIsRecorded ==
    \A f \in Frames, data \in SendData(workload), opts \in SendOptions(workload) :
        ~RateLimited(bus[f], data, opts, now)
        => nextId \in Range(WouldSend(f, data, opts).b.sentMessageIds)

---------------------------------------------------------------------------
(* Sends the rate limiter refuses *)

\* The run of a call of window.sendCrossDomainMessage in frame f in the
\* current state
WouldRun(f, data, opts) == sendCrossDomainMessage(Ctx(f), f, data, opts, "caller")

\* The run has handed nothing to the browser
NothingHandedOver(c) ==
    c.post = {} /\ c.writes = {} /\ c.tms = {} /\ c.tx = <<>> /\ c.bgNew = 0 /\ c.called = <<>>

\* C22: a send the rate limiter refuses returns null, leaves the trackers of
\* the frame as they were and transmits nothing, posts nothing and writes
\* nothing; a step changes a last-send timestamp only if it makes a send that
\* the rate limiter lets through.
C22_RefusedSendChangesNothing ==
    /\ [](\A f \in Frames, data \in SendData(workload), opts \in SendOptions(workload) :
             RateLimited(bus[f], data, opts, now)
             => /\ WouldRun(f, data, opts).ret = Null
                /\ WouldRun(f, data, opts).b = bus[f]
                /\ NothingHandedOver(WouldRun(f, data, opts)))
    /\ [][\A f \in Frames :
             bus'[f].messageThrottleTimestamps # bus[f].messageThrottleTimestamps
             => /\ nextId' = nextId + 1
                /\ \E k \in DOMAIN bus'[f].messageThrottleTimestamps :
                      /\ bus'[f].messageThrottleTimestamps[k] = now
                      /\ \A j \in DOMAIN bus'[f].messageThrottleTimestamps \ {k} :
                            /\ j \in DOMAIN bus[f].messageThrottleTimestamps
                            /\ bus'[f].messageThrottleTimestamps[j] =
                                  bus[f].messageThrottleTimestamps[j]]_vars

\* The top frame made a send that the rate limiter refused
C22_SendRefused ==
    /\ <<"throttled", "updateStatus">> \in DOMAIN diag["top"].stats
    /\ nextId > Len(txLog) + 1
    /\ bus["top"].messageThrottleTimestamps["updateStatus"] < now

---------------------------------------------------------------------------
(* The size of the receive-side record *)

\* The messageId of the envelope at the head of frame f's queue
HeadId(f) == Head(net[f]).data.messageId

\* C23: window.receivedMessageIds never holds more than 100 ids; an envelope
\* whose id is recorded leaves the record as it is, and any other id is put at
\* the end, the oldest id leaving the record when it held 100.
C23_RecordKeepsLastHundred ==
    /\ [](\A f \in Frames : Len(bus[f].receivedMessageIds) <= 100)
    /\ [][\A f \in Frames :
             PrimaryStep(f)
             => bus'[f].receivedMessageIds =
                   IF HeadId(f) \in Range(bus[f].receivedMessageIds)
                   THEN bus[f].receivedMessageIds
                   ELSE IF Len(bus[f].receivedMessageIds) = 100
                   THEN Append(Tail(bus[f].receivedMessageIds), HeadId(f))
                   ELSE Append(bus[f].receivedMessageIds, HeadId(f))]_vars

\* The record is full and the id that arrived first is gone from it
C23_OldestEvicted ==
    /\ Len(bus["child"].receivedMessageIds) = 100
    /\ FirstArrivalId \notin Range(bus["child"].receivedMessageIds)
    /\ <<"child", "primary", "duplicate">> \in outcomes

---------------------------------------------------------------------------
(* The collector's report and flow rating *)

\* The number of records of pair k in frame f that are less than age old
RecordsWithin(f, k, age) ==
    IF k \in DOMAIN diag[f].stats
    THEN Cardinality({i \in 1..Len(diag[f].stats[k].timestamps) :
                        now - diag[f].stats[k].timestamps[i] < age})
    ELSE 0

\* C24: once 11 'sent' records of one action were made within one second the
\* report gives the action a rate above 10 per second and the flow rating is
\* 'problematic'; whenever a reported rate is above 5 per second the rating is
\* 'concerning' or 'problematic', and above 10 per second it is 'problematic'.
C24_StormIsProblematic ==
    \A f \in Frames :
       /\ RecordsWithin(f, TrackedPair, 1000) >= 11
          => /\ RateAbove(diag[f], TrackedPair, now, 10)
             /\ FlowRatings(diag[f], now) = {"problematic"}
       /\ \A k \in DOMAIN diag[f].stats :
             /\ RateAbove(diag[f], k, now, 5)
                => FlowRatings(diag[f], now) \subseteq {"concerning", "problematic"}
             /\ RateAbove(diag[f], k, now, 10)
                => FlowRatings(diag[f], now) = {"problematic"}

\* No pair of frame f has a rate above 5 per second
NormalRates(f) == \A k \in DOMAIN diag[f].stats : ~RateAbove(diag[f], k, now, 5)

\* C25: with circular paths on record and normal rates the flow rating is
\* worse than 'normal', and with more than five circular paths it is
\* 'problematic'.
C25_LoopsDegradeRating ==
    \A f \in Frames :
       /\ (ReportLoops(diag[f]) > 0 /\ NormalRates(f))
          => FlowRatings(diag[f], now) \subseteq {"concerning", "problematic"}
       /\ ReportLoops(diag[f]) > 5 => FlowRatings(diag[f], now) = {"problematic"}

---------------------------------------------------------------------------
(* The bounds of the collector's memory *)

\* The statistics of pair k in frame f; a pair without records has none
StatOf(d, k) == IF k \in DOMAIN d.stats THEN d.stats[k] ELSE EmptyStat

\* The last n elements of s, written out
LastOf(s, n) == [i \in 1..(IF Len(s) > n THEN n ELSE Len(s)) |->
                    s[i + (IF Len(s) > n THEN Len(s) - n ELSE 0)]]

\* C26: every pair keeps at most 50 timestamps and 20 data samples and the
\* history of circular paths at most 20 records; a record adds one to count and
\* puts its time at the end of the timestamps, and of the data samples when it
\* has data, and a detected loop goes to the end of the history, the oldest
\* element leaving when the list was full.
C26_CollectorIsBounded ==
    /\ [](\A f \in Frames :
             /\ Len(diag[f].circularPaths) <= 20
             /\ \A k \in DOMAIN diag[f].stats :
                   /\ Len(diag[f].stats[k].timestamps) <= 50
                   /\ Len(diag[f].stats[k].data) <= 20)
    /\ [][\A f \in Frames : \A k \in DOMAIN diag'[f].stats :
             StatOf(diag'[f], k).count = StatOf(diag[f], k).count + 1
             => /\ diag'[f].stats[k].timestamps =
                      LastOf(Append(StatOf(diag[f], k).timestamps, now), 50)
                /\ \/ diag'[f].stats[k].data = StatOf(diag[f], k).data
                   \/ diag'[f].stats[k].data = LastOf(Append(StatOf(diag[f], k).data, now), 20)]_vars
    /\ [][\A f \in Frames :
             (diag'[f].circularPaths # diag[f].circularPaths /\ diag'[f].circularPaths # <<>>)
             => \E rec \in Range(diag'[f].circularPaths) :
                   /\ rec.timestamp = now
                   /\ diag'[f].circularPaths = LastOf(Append(diag[f].circularPaths, rec), 20)]_vars

\* The tracked pair has more records than it keeps timestamps, the oldest of
\* them from before the clock advanced are gone, and all lists are full
C26_ListsAreFull ==
    LET st == StatOf(diag["top"], TrackedPair)
    IN /\ st.count > 50
       /\ Len(st.timestamps) = 50
       /\ Len(st.data) = 20
       /\ st.timestamps[1] > StartTime

---------------------------------------------------------------------------
(* The collector and the protocol *)

\* The handler run c in a window in which debugUtils.js did not run
WithoutCollector(c) == [c EXCEPT !.d = [@ EXCEPT !.installed = FALSE]]

\* Two runs did the same to the bus and handed the same to the browser
SameProtocol(c1, c2) ==
    /\ c1.b = c2.b /\ c1.ret = c2.ret /\ c1.nid = c2.nid
    /\ c1.post = c2.post /\ c1.writes = c2.writes /\ c1.tms = c2.tms
    /\ c1.bgNew = c2.bgNew /\ c1.called = c2.called

\* C27: whatever the collector holds, each send and each listener run does to
\* the bus and the channels what it does in a window without the collector:
\* the same return value, envelopes, timers, trackers and the same dispatch.
C27_CollectorIsInert ==
    \A f \in Frames :
       /\ \A data \in SendData(workload), opts \in SendOptions(workload) :
             SameProtocol(sendCrossDomainMessage(Ctx(f), f, data, opts, "caller"),
                          sendCrossDomainMessage(WithoutCollector(Ctx(f)), f, data, opts, "caller"))
       /\ net[f] # <<>>
          => \A hq \in HasQuestions(workload), ex \in Extracts(workload) :
                LET ev == Head(net[f])
                    r1 == OnMessage(Ctx(f), f, ev.origin, ev.data, hq, ex)
                    r2 == OnMessage(WithoutCollector(Ctx(f)), f, ev.origin, ev.data, hq, ex)
                IN r1.outcome = r2.outcome /\ SameProtocol(r1.c, r2.c)
       /\ storeEvents[f] # <<>>
          => \A hq \in HasQuestions(workload), ex \in Extracts(workload) :
                LET ev == Head(storeEvents[f])
                    r1 == OnStorage(Ctx(f), f, ev.key, ev.data, hq, ex)
                    r2 == OnStorage(WithoutCollector(Ctx(f)), f, ev.key, ev.data, hq, ex)
                IN r1.outcome = r2.outcome /\ SameProtocol(r1.c, r2.c)

---------------------------------------------------------------------------
(* The messageIds of one context *)

\* The i-th and the j-th messageId of the context are the same string
SameId(i, j) == generatedIds[i].id = generatedIds[j].id

\* The two sends ran in one millisecond and their draws of Math.random()
\* agree in the first nine base-36 digits after the point
SameStampAndDigits(i, j) ==
    /\ generatedIds[i].at = generatedIds[j].at
    /\ substr(generatedIds[i].random, 2, 9) = substr(generatedIds[j].random, 2, 9)

---------------------------------------------------------------------------
(* Retransmissions *)

\* The messageId of the caller's transmission that the transmission id retries,
\* directly or through earlier retries
RECURSIVE FirstTransmission(_)
FirstTransmission(id) ==
    LET own == {i \in DOMAIN txLog : txLog[i].id = id /\ txLog[i].retryOf # NoId}
    IN IF own = {} THEN id
       ELSE FirstTransmission(txLog[CHOOSE i \in own : TRUE].retryOf)

\* The messageIds of the logical send that the caller's transmission id began
Retransmissions(id) == {r \in 1..MaxIds : FirstTransmission(r) = id}

\* How often frame f's action switches ran on an envelope of the logical send id
DispatchesOfSend(f, id) ==
    SumOver(dispatched[f],
            {k \in DOMAIN dispatched[f] : k[1].messageId \in Retransmissions(id)})

\* C29: a send made with retry enabled is dispatched at most once in each
\* receiving frame, counting the original transmission and all its retries.
C29_RetriesDispatchOnce ==
    \A f \in Frames, i \in DOMAIN txLog :
       txLog[i].origin = "caller" => DispatchesOfSend(f, txLog[i].id) <= 1

\* How often the callback given to the logical send id was invoked
CallbacksOfSend(id) ==
    SumOver(cbCount, DOMAIN cbCount \cap Retransmissions(id))

\* C30: the callback of a ping made with retry enabled is invoked at most once,
\* counting the pongs that answer the original transmission and its retries.
C30_CallbackOncePerPing ==
    \A i \in DOMAIN txLog :
       txLog[i].origin = "caller" /\ txLog[i].action = "ping"
       => CallbacksOfSend(txLog[i].id) <= 1

---------------------------------------------------------------------------
(* The retry chain *)

\* The retry timers that are set
RetryTimers == {tm \in timers : tm.kind = "retry"}

\* The transmissions of the logical send that the caller's transmission id began
ChainOf(id) == {i \in DOMAIN txLog : FirstTransmission(txLog[i].id) = id}

\* The transmissions the retry timers of the logical send id will still cause
StillToCome(id) ==
    LET pending == {tm \in RetryTimers : FirstTransmission(tm.id) = id}
    IN IF pending = {} THEN 0
       ELSE (CHOOSE tm \in pending : TRUE).opts.retryCount + 1

\* The retries a transmission asks for
RetriesAskedFor(tx) == IF tx.retry /\ tx.retryCount > 0 THEN tx.retryCount ELSE 0

\* The transmission that transmission k retries
Retried(k) == CHOOSE i \in DOMAIN txLog : txLog[i].id = txLog[k].retryOf

\* Two envelopes carry the same data
SameData(e1, e2) ==
    [e1 EXCEPT !.messageId = NoId, !.timestamp = 0] =
    [e2 EXCEPT !.messageId = NoId, !.timestamp = 0]

\* The bus is done with its retries, or the model's messageIds are used up
RetriesDone == RetryTimers = {} \/ nextId > MaxIds

\* C31: a transmitted send with retry and retryCount = n is followed by n
\* retransmissions of the same data and no more, each due retryDelay after the
\* transmission it repeats and never earlier; a send that is refused sets no
\* retry timer; in the end no retry is pending.
C31_RetryChainEnds ==
    /\ [](/\ \A i \in DOMAIN txLog :
                txLog[i].origin = "caller"
                => /\ Cardinality(ChainOf(txLog[i].id)) + StillToCome(txLog[i].id)
                         = RetriesAskedFor(txLog[i]) + 1
                   /\ Cardinality({tm \in RetryTimers : FirstTransmission(tm.id) = txLog[i].id}) <= 1
          /\ \A k \in DOMAIN txLog :
                txLog[k].origin = "retry"
                => /\ txLog[k].time >= txLog[Retried(k)].time + txLog[Retried(k)].retryDelay
                   /\ SameData(txLog[k].env, txLog[Retried(k)].env)
          /\ \A tm \in RetryTimers :
                \E i \in DOMAIN txLog :
                   txLog[i].id = tm.id /\ tm.due = txLog[i].time + txLog[i].retryDelay)
    /\ [][(nextId' # nextId /\ txLog' = txLog) => RetryTimers' \subseteq RetryTimers]_vars
    /\ <>[]RetriesDone

\* A send with retryCount 2 was transmitted three times and no retry is pending
C31_ChainOfThree ==
    /\ RetryTimers = {}
    /\ \E i \in DOMAIN txLog :
          /\ txLog[i].origin = "caller" /\ txLog[i].retry /\ txLog[i].retryCount = 2
          /\ Cardinality(ChainOf(txLog[i].id)) = 3

---------------------------------------------------------------------------
(* Frame discovery *)

\* C32: the array that discoverFrames hands to its callback holds the reply of
\* every peer whose pong answering the discovery ping was dispatched before
\* the collection timer fired, and the callback runs once per call.
C32_DiscoveryReportsPeers ==
    /\ \A i \in DOMAIN discoveries :
          \A pong \in discoveries[i].answers : pong \in Range(discoveries[i].frames)
    /\ \A i \in DOMAIN discoveries, j \in DOMAIN discoveries :
          discoveries[i].call = discoveries[j].call => i = j

---------------------------------------------------------------------------
(* The throttle state and the fingerprint check *)

\* C33: a send that the rate limiter lets through and the fingerprint check
\* rejects leaves window.messageThrottleTimestamps as it was.
C33_RejectedLeavesThrottle ==
    \A f \in Frames, data \in SendData(workload), opts \in SendOptions(workload) :
        (~RateLimited(bus[f], data, opts, now) /\ DuplicateContent(bus[f], data, opts, now))
        => /\ WouldSend(f, data, opts).ret = Null
           /\ WouldSend(f, data, opts).b.messageThrottleTimestamps =
                 bus[f].messageThrottleTimestamps

---------------------------------------------------------------------------
(* Forwarding of status changes *)

\* An updateStatus envelope waits for a listener
StatusInFlight ==
    \E f \in Frames :
       \/ \E i \in DOMAIN net[f] : net[f][i].data.action = "updateStatus"
       \/ \E i \in DOMAIN storeEvents[f] : storeEvents[f][i].data.action = "updateStatus"

\* The transmissions the listeners made to pass a status change on
Forwards == {i \in DOMAIN txLog : txLog[i].origin = "forward"}

\* The step adds a forward to the transmissions
ForwardsInStep == Len(txLog') > Len(txLog) /\ txLog'[Len(txLog')].origin = "forward"

\* Forwarding has come to rest, or the model's messageIds are used up
ForwardingDone == ~StatusInFlight \/ nextId > MaxIds

\* C34: a listener forwards an updateStatus only if it changed the frame's
\* enabled state, came from another peer and has a path of fewer than 3
\* entries; a forwarded envelope has a path of at most 3 entries; the storage
\* listener forwards nothing; in the end no updateStatus is in flight.
C34_ForwardingEnds ==
    /\ [](\A i \in Forwards :
             /\ txLog[i].action = "updateStatus"
             /\ Len(txLog[i].env.path[1]) <= forwardPathLimit)
    /\ [][ForwardsInStep
          => \E f \in Frames :
                /\ PrimaryStep(f)
                /\ txLog'[Len(txLog')].frame = f
                /\ Head(net[f]).data.action = "updateStatus"
                /\ bus[f].enabled # Head(net[f]).data.enabled
                /\ bus'[f].enabled = Head(net[f]).data.enabled
                /\ Head(net[f]).data.from # detectPearsonDomain(f)
                /\ Len(Head(net[f]).data.path[1]) < forwardPathLimit
                /\ Len(txLog') = Len(txLog) + 1]_vars
    /\ <>[]ForwardingDone

\* A status change was forwarded with a path of three entries and nothing is
\* in flight any more
C34_ForwardedAndQuiet ==
    /\ ~StatusInFlight
    /\ \E i \in Forwards : Len(txLog[i].env.path[1]) = forwardPathLimit

---------------------------------------------------------------------------
(* Handling updateStatus twice *)

\* The step hands nothing of frame f to the browser and leaves its solver
\* state alone
SolverStateKept(f) ==
    /\ bus'[f].enabled = bus[f].enabled
    /\ bus'[f].analyzing = bus[f].analyzing
    /\ txLog' = txLog
    /\ timers' = timers
    /\ store' = store
    /\ bg' = bg
    /\ \A g \in Frames \ {f} : net'[g] = net[g] /\ storeEvents'[g] = storeEvents[g]

\* C35: a listener run that dispatches an updateStatus leaves the frame's
\* enabled state equal to the value the envelope carries; if the frame had
\* that value already, its solver state is unchanged and nothing is sent.
C35_UpdateStatusIsIdempotent ==
    [][\A f \in Frames :
          /\ (SwitchRan(f) /\ Head(net[f]).data.action = "updateStatus")
             => /\ bus'[f].enabled = Head(net[f]).data.enabled
                /\ bus[f].enabled = Head(net[f]).data.enabled => SolverStateKept(f)
          /\ (/\ StorageStep(f) /\ dispatched'[f] # dispatched[f]
              /\ Head(storeEvents[f]).data.action = "updateStatus")
             => /\ bus'[f].enabled = Head(storeEvents[f]).data.enabled
                /\ bus[f].enabled = Head(storeEvents[f]).data.enabled => SolverStateKept(f)]_vars

\* A frame dispatched two updateStatus envelopes with different messageIds that
\* carry the value its enabled state has
C35_SameValueTwice ==
    \E f \in Frames :
    \E k1 \in DOMAIN dispatched[f], k2 \in DOMAIN dispatched[f] :
       /\ k1[1].action = "updateStatus" /\ k2[1].action = "updateStatus"
       /\ k1[1].messageId # k2[1].messageId
       /\ k1[1].enabled = bus[f].enabled /\ k2[1].enabled = bus[f].enabled

---------------------------------------------------------------------------
(* Requests to the background script *)

\* C36: in each frame at most one analyzeQuestion request to the background
\* script is waiting for its response.
C36_OneRequestOutstanding == \A f \in Frames : bg[f] <= 1

---------------------------------------------------------------------------
(* The receive side of the fallback channel *)

\* The step is a run of frame f's 'storage' listener that got past its rate
\* limiter: lastStorageMessageTimes has a new timestamp
PassesStorageLimit(f) ==
    StorageStep(f) /\ bus'[f].lastStorageMessageTimes # bus[f].lastStorageMessageTimes

\* The step is a run of frame f's 'storage' listener that reached its switch
DispatchesFromStorage(f) == StorageStep(f) /\ dispatched'[f] # dispatched[f]

\* The step is a run of frame f's 'storage' listener on an envelope it has
\* not seen, which the receive-side rate limit drops
DroppedByStorageLimit(f) ==
    /\ StorageStep(f)
    /\ HasPrefix(Head(storeEvents[f]).key)
    /\ Head(storeEvents[f]).data.json
    /\ Head(storeEvents[f]).data.source = ProtocolTag
    /\ messageSignature(Head(storeEvents[f]).key, Head(storeEvents[f]).data)
           \notin Range(bus[f].processedStorageMessages)
    /\ (now - Get(bus[f].lastStorageMessageTimes, ActionKey(Head(storeEvents[f]).data)))
           < MIN_STORAGE_MESSAGE_INTERVAL

\* C37: on the fallback channel a frame lets at most one envelope per action
\* past its rate limiter in 1000 ms, and only such an envelope, with a path
\* of at most 3 entries, reaches the action switch; an envelope the rate
\* limit drops is recorded as processed, the record stays, and an envelope
\* that is recorded never reaches the switch.
C37_FallbackReceiveLimits ==
    [][\A f \in Frames :
          /\ PassesStorageLimit(f) =>
                /\ (now - Get(bus[f].lastStorageMessageTimes,
                              ActionKey(Head(storeEvents[f]).data)))
                       >= MIN_STORAGE_MESSAGE_INTERVAL
                /\ bus'[f].lastStorageMessageTimes =
                       Put(bus[f].lastStorageMessageTimes,
                           ActionKey(Head(storeEvents[f]).data), now)
          /\ DispatchesFromStorage(f) =>
                /\ PassesStorageLimit(f)
                /\ \/ Head(storeEvents[f]).data.path = NoPath
                   \/ Len(Head(storeEvents[f]).data.path[1]) <= storageHopLimit
                /\ messageSignature(Head(storeEvents[f]).key, Head(storeEvents[f]).data)
                       \notin Range(bus[f].processedStorageMessages)
          /\ DroppedByStorageLimit(f) =>
                /\ messageSignature(Head(storeEvents[f]).key, Head(storeEvents[f]).data)
                       \in Range(bus'[f].processedStorageMessages)
                /\ dispatched'[f] = dispatched[f]
                /\ bus'[f].lastStorageMessageTimes = bus[f].lastStorageMessageTimes
          /\ Range(bus[f].processedStorageMessages)
                \subseteq Range(bus'[f].processedStorageMessages)
          /\ ~StorageStep(f) =>
                bus'[f].lastStorageMessageTimes = bus[f].lastStorageMessageTimes]_vars

\* The storage listener of a frame dropped the second of two envelopes of one
\* action by its rate limit, and the dropped envelope is at the head of the
\* frame's storage events once more
C37_DroppedArrivesAgain ==
    \E f \in Frames :
       /\ <<f, "fallback", "ratelimited">> \in outcomes
       /\ Len(bus[f].processedStorageMessages) = 2
       /\ bus[f].processedStorageMessages[1][1] = bus[f].processedStorageMessages[2][1]
       /\ storeEvents[f] # <<>>
       /\ messageSignature(Head(storeEvents[f]).key, Head(storeEvents[f]).data)
             = bus[f].processedStorageMessages[2]

---------------------------------------------------------------------------
(* The rates of the report *)

\* The highest rate getMessageStatsReport can give: maxTimestamps records in
\* rateSeconds seconds
HighestRate == maxTimestamps \div rateSeconds

\* C38: for every pair of category and action that has records, the rate
\* getMessageStatsReport computes at any time is at most 10 per second: the
\* pair keeps at most 50 timestamps, none of them later than Date.now().
C38_RateAtMostTen ==
    \A f \in Frames : \A k \in DOMAIN diag[f].stats :
       ~diag[f].stats[k].bare =>
          /\ Len(diag[f].stats[k].timestamps) <= maxTimestamps
          /\ \A i \in 1..Len(diag[f].stats[k].timestamps) : diag[f].stats[k].timestamps[i] <= now
          /\ RecentMessages(diag[f], k, now) <= HighestRate * rateSeconds
          /\ HighestRate = 10
          /\ ~RateAbove(diag[f], k, now, HighestRate)

\* The report returns and gives a pair with more than 50 records the rate 10
C38_RateIsTen ==
    \E f \in Frames :
       /\ ~ReportThrows(diag[f])
       /\ \E k \in DOMAIN diag[f].stats :
             /\ diag[f].stats[k].count > maxTimestamps
             /\ RecentMessages(diag[f], k, now) = HighestRate * rateSeconds

=============================================================================
